---- MODULE Spec2Model ----
(***************************************************************************)
(* Model of the performance-management backend (src/backend): the          *)
(* initiative workflow (utils/initiative_workflows.py and                  *)
(* routers/initiatives.py) and the goal approval / freeze workflow         *)
(* (routers/goals.py).                                                     *)
(*                                                                         *)
(* Every HTTP handler is one atomic action.  The handlers are coroutines   *)
(* that contain no await and the server is started as a single uvicorn     *)
(* process (main.py:68, start_with_migrations.py:63), so a handler body    *)
(* runs to completion on the event loop before another request is served.  *)
(* The response of the last handled request is kept in `resp`, so that a   *)
(* refused request is visible in the state.                                *)
(*                                                                         *)
(* Status values are the strings of the str-Enums.  A str-Enum member      *)
(* compares equal to a plain string, and to a member of another str-Enum,  *)
(* exactly when the string values are equal (case-sensitively).            *)
(***************************************************************************)
EXTENDS Integers, Naturals, Sequences, FiniteSets, TLC

\* ------------------------------------------------------------------ bounds
MaxTime == 2
MaxInitiatives == 1
MaxExtensions == 2
MaxSubmissions == 2
MaxGoals == 2
MaxFreezeLogs == 2
MaxReports == 1

\* --------------------------------------------------------------- constants
NoUser == "none"
NoOrg == "none"

\* The dates a request may carry (the clock starts at 0).
Dates == 1..MaxTime

\* ------------------------------------------------- users, roles, organisations
\* The organisation table as seed_users.py fills it: a directorate with two
\* departments under the global organisation, and a unit under a department.
Organization == [
    glob |-> [name |-> "glob", level |-> "global",      parent_id |-> NoOrg],
    dirA |-> [name |-> "dirA", level |-> "directorate", parent_id |-> "glob"],
    depA |-> [name |-> "depA", level |-> "department",  parent_id |-> "dirA"],
    depB |-> [name |-> "depB", level |-> "department",  parent_id |-> "dirA"],
    unitA |-> [name |-> "unitA", level |-> "unit",      parent_id |-> "depA"]]

\* The users table with each user's role (permissions, scope_override) inlined.
\* hod heads the directorate and supervises sup; sup supervises emp and old;
\* out works in another department; old is archived.
User == [
    hod |-> [organization_id |-> "dirA", supervisor_id |-> NoUser, status |-> "active",
             scope_override |-> "none",
             permissions |-> {"initiative_view_all", "initiative_edit", "goal_edit",
                              "goal_progress_update", "goal_status_change",
                              "goal_approve", "goal_freeze", "system_admin",
                              "goal_create_yearly", "goal_create_quarterly",
                              "goal_create_departmental", "review_create_cycle",
                              "organization_create", "organization_edit",
                              "organization_delete"}],
    sup |-> [organization_id |-> "depA", supervisor_id |-> "hod", status |-> "active",
             scope_override |-> "none",
             permissions |-> {"initiative_edit", "goal_progress_update"}],
    emp |-> [organization_id |-> "depA", supervisor_id |-> "sup", status |-> "active",
             scope_override |-> "none", permissions |-> {}],
    out |-> [organization_id |-> "depB", supervisor_id |-> NoUser, status |-> "active",
             scope_override |-> "none", permissions |-> {}],
    old |-> [organization_id |-> "depA", supervisor_id |-> "sup", status |-> "archived",
             scope_override |-> "none", permissions |-> {}]]

Users == DOMAIN User

\* The users that send requests (an archived user holds no session).
Actors == {u \in Users : User[u].status = "active"}

\* ------------------------------------------------------------------- state
VARIABLES
    now,          \* the wall clock read by datetime.now() / datetime.utcnow()
    initiatives,  \* table initiatives (with its assignment and submission rows)
    extensions,   \* table initiative_extensions
    goals,        \* table goals (with the goal_assignments row of each goal)
    freeze_logs,  \* table goal_freeze_logs
    progress_reports,  \* table goal_progress_reports
    review_assignments,  \* table review_assignments
    review_responses,  \* table review_responses
    review_scores,  \* table review_scores
    organizations,  \* table organizations
    active_connections,  \* ConnectionManager.active_connections: user id -> set of WebSockets
    endpoints,    \* the user each open WebSocket endpoint serves
    sending,      \* the send_personal_notification call in progress
    notified,     \* the rows the last handled request added to table notifications
    notifier,     \* whether NotificationService.create_notification works
    resp          \* the response to the last handled request

initiativeVars == <<now, initiatives, extensions>>
goalSideVars == <<freeze_logs, progress_reports>>
goalVars == <<goals, goalSideVars>>
dataVars == <<initiativeVars, goalVars>>
reviewVars == <<review_assignments, review_responses, review_scores>>
wsVars == <<active_connections, endpoints, sending>>
vars == <<now, initiatives, extensions, goals, freeze_logs, progress_reports, review_assignments, review_responses, review_scores, organizations, active_connections, endpoints, sending, notified, notifier, resp>>

\* UserPermissions.user_has_permission
user_has_permission(u, permission) == permission \in User[u].permissions

\* UserPermissions._get_organizational_scope
_get_organizational_scope(organization_id) ==
    IF organization_id \notin DOMAIN organizations THEN "none"
    ELSE IF organizations[organization_id].level = "global" THEN "global"
    ELSE IF organizations[organization_id].level = "directorate" THEN "cross_directorate"
    ELSE "none"

\* UserPermissions.get_user_effective_permissions: the effective scope
effective_scope(u) ==
    IF User[u].scope_override # "none" THEN User[u].scope_override
    ELSE _get_organizational_scope(User[u].organization_id)

\* UserPermissions._get_parent_at_level: walk the parent chain up to `level`
RECURSIVE _get_parent_at_level(_, _)
_get_parent_at_level(org, level) ==
    IF org = NoOrg THEN NoOrg
    ELSE IF organizations[org].level = level THEN org
    ELSE IF organizations[org].parent_id # NoOrg
         THEN _get_parent_at_level(organizations[org].parent_id, level)
    ELSE NoOrg

\* UserPermissions._is_descendant: walk the parent chain of descendant_id
RECURSIVE _is_descendant(_, _)
_is_descendant(ancestor_id, descendant_id) ==
    IF descendant_id = NoOrg THEN FALSE
    ELSE IF descendant_id = ancestor_id THEN TRUE
    ELSE IF organizations[descendant_id].parent_id # NoOrg
         THEN _is_descendant(ancestor_id, organizations[descendant_id].parent_id)
    ELSE FALSE

\* UserPermissions._is_within_directorate_network
_is_within_directorate_network(user_org_id, target_org_id) ==
    LET user_directorate == _get_parent_at_level(user_org_id, "directorate")
        target_directorate == _get_parent_at_level(target_org_id, "directorate")
    IN  /\ user_directorate # NoOrg
        /\ target_directorate # NoOrg
        /\ user_directorate = target_directorate

\* UserPermissions._is_within_organizational_tree
_is_within_organizational_tree(user_org_id, target_org_id) ==
    \/ user_org_id = target_org_id
    \/ _is_descendant(user_org_id, target_org_id)

\* UserPermissions.user_can_access_organization
user_can_access_organization(u, target_org_id) ==
    IF effective_scope(u) = "global" THEN TRUE
    ELSE IF effective_scope(u) = "cross_directorate"
         THEN _is_within_directorate_network(User[u].organization_id, target_org_id)
    ELSE _is_within_organizational_tree(User[u].organization_id, target_org_id)


\* The answer a handler gives: the handler and the HTTP status code (the error
\* detail is named where the handler raises but is not stored).
Response(op, code, detail) == [op |-> op, code |-> code]

\* models.NotificationType: the types of the rows the handlers below create.
NotificationType ==
    {"goal_created", "goal_assigned", "goal_approved", "goal_rejected",
     "goal_acceptance_required", "goal_accepted", "goal_declined",
     "initiative_created", "initiative_rejected", "system_announcement"}

\* A row of table notifications: the addressee and the type.
Notification(user_id, type) == [user_id |-> user_id, type |-> type]

\* What a call of NotificationService.create_notification does:
\*   "ok"           the row is added and the session is committed;
\*   "raises"       an error is raised before the row is written;
\*   "commit_fails" db.commit() raises: the transaction, with everything the
\*                  session had pending, is rolled back.
NotifierStates == {"ok", "raises", "commit_fails"}

\* NotificationService.create_notification for each row of `rows`: the rows
\* that are stored.
create_notification(rows) == IF notifier = "ok" THEN rows ELSE {}

\* The end of a handled request of the initiative and goal endpoints: its
\* answer and the notification rows its calls of create_notification stored.
\* These endpoints do not touch the review tables.
Respond(op, code, rows) ==
    /\ resp' = Response(op, code, "")
    /\ notified' = create_notification(rows)
    /\ UNCHANGED <<notifier, reviewVars, organizations, wsVars>>

\* A handler that raises: nothing is committed, the session is closed.
Refuse(op, code, detail) ==
    /\ Respond(op, code, {})
    /\ UNCHANGED dataVars

InitiativeIds == 1..MaxInitiatives
ExtensionIds == 1..MaxExtensions

\* models.InitiativeType
InitiativeType == {"INDIVIDUAL", "GROUP"}

\* schemas.initiatives.InitiativeStatus: the values a status update may carry
SchemaInitiativeStatus ==
    {"PENDING_APPROVAL", "ASSIGNED", "PENDING", "ONGOING", "UNDER_REVIEW",
     "COMPLETED", "REJECTED", "OVERDUE"}

\* The values the handlers write to Initiative.status
InitiativeStatus == SchemaInitiativeStatus \cup {"STARTED", "APPROVED"}

\* The new_due_date an extension request may carry: a past and a future date.
ExtensionDates == {0, MaxTime}

\* schemas.initiatives.ExtensionStatus
ExtensionStatus == {"PENDING", "APPROVED", "DENIED"}

\* A rejection_reason / team_head_id key that the request body leaves out.
Omitted == "omitted"

\* The approval bodies sent: approved and rejection_reason.
ApprovalChoices ==
    {<<TRUE, Omitted>>, <<FALSE, "">>, <<FALSE, Omitted>>, <<FALSE, "reason">>}

\* The creation requests sent: who sends it, the type, assignee_ids and
\* team_head_id of the body.
CreateChoices == {
    <<"emp", "INDIVIDUAL", <<"emp">>, NoUser>>,
    <<"sup", "INDIVIDUAL", <<"emp">>, NoUser>>,
    <<"hod", "INDIVIDUAL", <<"emp">>, NoUser>>,
    <<"hod", "INDIVIDUAL", <<"hod">>, NoUser>>,
    <<"sup", "GROUP", <<"sup", "emp">>, "emp">>,
    <<"hod", "GROUP", <<"sup", "emp">>, "sup">>,
    <<"hod", "GROUP", <<"sup", "emp">>, Omitted>>,
    <<"hod", "GROUP", <<"sup", "emp">>, NoUser>>,
    <<"hod", "GROUP", <<"sup", "emp">>, "out">>,
    <<"hod", "INDIVIDUAL", <<"sup", "emp">>, NoUser>>,
    <<"hod", "INDIVIDUAL", <<"emp">>, "emp">>,
    <<"sup", "INDIVIDUAL", <<"out">>, NoUser>>,
    <<"out", "INDIVIDUAL", <<"emp">>, NoUser>>,
    <<"hod", "INDIVIDUAL", <<"old">>, NoUser>>}

Range(f) == {f[x] : x \in DOMAIN f}


\* The rows of initiative_assignments of initiative i name these users.
is_assigned(i, user_id) == user_id \in initiatives[i].assignees

\* The PENDING rows of initiative_extensions of initiative i.
pending_extensions(i) ==
    {e \in 1..Len(extensions) :
        extensions[e].initiative_id = i /\ extensions[e].status = "PENDING"}

\* InitiativeWorkflowService.validate_initiative_assignment: "" when every
\* assignee passes, else the message of the first ValueError.
RECURSIVE validate_initiative_assignment(_, _)
validate_initiative_assignment(creator, assignee_ids) ==
    IF assignee_ids = <<>> THEN ""
    ELSE LET assignee == Head(assignee_ids) IN
         IF user_has_permission(creator, "initiative_view_all")
            /\ ~user_can_access_organization(creator, User[assignee].organization_id)
         THEN "Cannot assign initiative to user outside your scope"
         ELSE IF ~user_has_permission(creator, "initiative_view_all")
                 /\ User[creator].organization_id # User[assignee].organization_id
         THEN "Cannot assign initiative to user outside your department"
         ELSE IF User[assignee].status # "active"
         THEN "Cannot assign initiative to inactive user"
         ELSE validate_initiative_assignment(creator, Tail(assignee_ids))

\* InitiativeCreate.validate_team_head: "" when the body is accepted.  The
\* validator runs only when the body carries the team_head_id key.
validate_team_head(type, assignee_ids, team_head_id) ==
    IF team_head_id = Omitted THEN ""
    ELSE IF type = "GROUP" THEN
         IF team_head_id = NoUser THEN "Group initiatives must have a team head"
         ELSE IF team_head_id \notin Range(assignee_ids)
         THEN "Team head must be selected from assigned group members"
         ELSE ""
    ELSE IF Len(assignee_ids) # 1
         THEN "Individual initiatives must have exactly one assignee"
    ELSE IF team_head_id # NoUser
         THEN "Individual initiatives cannot have a team head"
    ELSE ""

\* initial_status with the self-assignment branch lost.
initial_status_no_self(creator, assignee_ids) ==
    IF \E s \in Users : User[s].supervisor_id = creator THEN "ASSIGNED"
    ELSE "PENDING_APPROVAL"

\* InitiativeWorkflowService.create_initiative, lines 46-64: the initial status
initial_status(creator, assignee_ids) ==
    LET is_self_assigned == creator \in Range(assignee_ids) /\ Len(assignee_ids) = 1
        has_supervisees == \E s \in Users : User[s].supervisor_id = creator
    IN  IF is_self_assigned THEN "PENDING_APPROVAL"
        ELSE IF has_supervisees /\ creator \notin Range(assignee_ids) THEN "ASSIGNED"
        ELSE "PENDING_APPROVAL"

\* POST /initiatives/ : routers.initiatives.create_initiative and
\* InitiativeWorkflowService.create_initiative
create_initiative(u, type, assignee_ids, team_head_id, due_date, docs_ok) ==
    /\ Len(initiatives) < MaxInitiatives
    /\ IF due_date <= now
       THEN Refuse("create_initiative", 422, "Due date must be in the future")
       ELSE IF validate_team_head(type, assignee_ids, team_head_id) # ""
       THEN Refuse("create_initiative", 422,
                   validate_team_head(type, assignee_ids, team_head_id))
       ELSE IF validate_initiative_assignment(u, assignee_ids) # ""
       THEN Refuse("create_initiative", 400, validate_initiative_assignment(u, assignee_ids))
       ELSE IF ~docs_ok
       THEN Refuse("create_initiative", 400, "Cannot attach document")
       ELSE /\ initiatives' = Append(initiatives,
                  [type |-> type,
                   status |-> initial_status(u, assignee_ids),
                   due_date |-> due_date,
                   created_by |-> u,
                   team_head_id |-> IF team_head_id = Omitted THEN NoUser ELSE team_head_id,
                   assignees |-> Range(assignee_ids),
                   submissions |-> 0])
            /\ Respond("create_initiative", 200,
                       IF /\ initial_status(u, assignee_ids) = "PENDING_APPROVAL"
                          /\ User[u].supervisor_id # NoUser
                       THEN {Notification(User[u].supervisor_id, "initiative_created")}
                       ELSE {})
            /\ UNCHANGED <<now, extensions, goalVars>>

\* The handlers below change one field of one initiative.
SetInitiative(i, rec) == initiatives' = [initiatives EXCEPT ![i] = rec]

\* InitiativeWorkflowService.approve_initiative and its router handler
approve_initiative(u, i, approved, rejection_reason) ==
    IF ~approved /\ rejection_reason = ""
    THEN Refuse("approve_initiative", 422,
                "Rejection reason is required when rejecting an initiative")
    ELSE IF i > Len(initiatives)
    THEN Refuse("approve_initiative", 400, "Initiative not found")
    ELSE IF initiatives[i].status # "PENDING_APPROVAL"
    THEN Refuse("approve_initiative", 400, "Initiative is not pending approval")
    ELSE IF User[initiatives[i].created_by].supervisor_id # u
    THEN Refuse("approve_initiative", 400,
                "Only the initiative creator's supervisor can approve this initiative")
    ELSE IF approved
    THEN /\ SetInitiative(i, [initiatives[i] EXCEPT !.status = "PENDING"])
         /\ Respond("approve_initiative", 200, {})
         /\ UNCHANGED <<now, extensions, goalVars>>
    ELSE IF rejection_reason = Omitted
    THEN Refuse("approve_initiative", 400,
                "Rejection reason is required when rejecting an initiative")
    ELSE IF notifier = "commit_fails"
    THEN \* notify_initiative_rejected runs before the service commits: the
         \* failed commit inside create_notification rolls back the pending
         \* status change with the notification row, and the error is caught.
         \* The service's own commit then has nothing to store, or raises on a
         \* session left unusable.
         /\ \E code \in {200, 500} : Respond("approve_initiative", code, {})
         /\ UNCHANGED <<initiativeVars, goalVars>>
    ELSE /\ SetInitiative(i, [initiatives[i] EXCEPT !.status = "REJECTED"])
         /\ Respond("approve_initiative", 200,
                    {Notification(initiatives[i].created_by, "initiative_rejected")})
         /\ UNCHANGED <<now, extensions, goalVars>>

\* The three handlers accept / start / complete share one shape:
\* 404, then 403 for a user without an assignment row, then 400 for a wrong
\* status, then the status change.
assignee_transition(op, u, i, from, to) ==
    IF i > Len(initiatives)
    THEN Refuse(op, 404, "Initiative not found")
    ELSE IF ~is_assigned(i, u)
    THEN Refuse(op, 403, "You are not assigned to this initiative")
    ELSE IF initiatives[i].status # from
    THEN Refuse(op, 400, "Initiative must be " \o from)
    ELSE /\ SetInitiative(i, [initiatives[i] EXCEPT !.status = to])
         /\ Respond(op, 200, {})
         /\ UNCHANGED <<now, extensions, goalVars>>

\* PUT /initiatives/{id}/accept
accept_initiative(u, i) == assignee_transition("accept_initiative", u, i, "ASSIGNED", "PENDING")

\* PUT /initiatives/{id}/start
start_initiative(u, i) == assignee_transition("start_initiative", u, i, "PENDING", "ONGOING")

\* PUT /initiatives/{id}/complete
complete_initiative(u, i) ==
    assignee_transition("complete_initiative", u, i, "ONGOING", "UNDER_REVIEW")

\* PUT /initiatives/{id} : only the due_date of the body is modelled
update_initiative(u, i, due_date) ==
    IF ~user_has_permission(u, "initiative_edit")
    THEN Refuse("update_initiative", 403, "Insufficient permissions")
    ELSE IF i > Len(initiatives)
    THEN Refuse("update_initiative", 404, "Initiative not found")
    ELSE IF initiatives[i].created_by # u
    THEN Refuse("update_initiative", 403,
                "Only initiative creator can update initiative details")
    ELSE /\ SetInitiative(i, [initiatives[i] EXCEPT !.due_date = due_date])
         /\ Respond("update_initiative", 200, {})
         /\ UNCHANGED <<now, extensions, goalVars>>

\* PUT /initiatives/{id}/status : ONGOING is routed to
\* InitiativeWorkflowService.start_initiative, every other value is written
\* to the row as it is.
update_initiative_status(u, i, status) ==
    IF status = "ONGOING"
    THEN IF i > Len(initiatives)
         THEN Refuse("update_initiative_status", 400, "Failed to update initiative status")
         ELSE IF initiatives[i].status # "ASSIGNED"
         THEN Refuse("update_initiative_status", 400,
                     "Initiative can only be started from ASSIGNED status")
         ELSE IF ~is_assigned(i, u)
         THEN Refuse("update_initiative_status", 400,
                     "User is not assigned to this initiative")
         ELSE /\ SetInitiative(i, [initiatives[i] EXCEPT !.status = "STARTED"])
              /\ Respond("update_initiative_status", 200, {})
              /\ UNCHANGED <<now, extensions, goalVars>>
    ELSE IF i > Len(initiatives)
         THEN Refuse("update_initiative_status", 404, "Initiative not found")
         ELSE /\ SetInitiative(i, [initiatives[i] EXCEPT !.status = status])
              /\ Respond("update_initiative_status", 200, {})
              /\ UNCHANGED <<now, extensions, goalVars>>

\* submit_initiative without the check for a pending extension.
submit_initiative_no_pending_check(u, i, docs_ok) ==
    IF i > Len(initiatives)
    THEN Refuse("submit_initiative", 400, "Failed to submit initiative")
    ELSE IF initiatives[i].status \notin {"STARTED", "OVERDUE"}
            \/ (initiatives[i].type = "GROUP" /\ initiatives[i].team_head_id # u)
            \/ (initiatives[i].type # "GROUP" /\ ~is_assigned(i, u))
            \/ ~docs_ok
    THEN Refuse("submit_initiative", 400, "")
    ELSE /\ SetInitiative(i, [initiatives[i] EXCEPT
                !.status = "UNDER_REVIEW",
                !.submissions = IF @ < MaxSubmissions THEN @ + 1 ELSE @])
         /\ Respond("submit_initiative", 200, {})
         /\ UNCHANGED <<now, extensions, goalVars>>

\* InitiativeWorkflowService.submit_initiative and POST /initiatives/{id}/submit.
\* docs_ok: every document id of the body is attached to the initiative.
submit_initiative(u, i, docs_ok) ==
    IF i > Len(initiatives)
    THEN Refuse("submit_initiative", 400, "Failed to submit initiative")
    ELSE IF initiatives[i].status = "OVERDUE" /\ pending_extensions(i) # {}
    THEN Refuse("submit_initiative", 400,
                "Cannot submit overdue initiative with pending extension request")
    ELSE IF initiatives[i].status \notin {"STARTED", "OVERDUE"}
    THEN Refuse("submit_initiative", 400, "Initiative must be started to submit")
    ELSE IF initiatives[i].type = "GROUP" /\ initiatives[i].team_head_id # u
    THEN Refuse("submit_initiative", 400, "Only team head can submit group initiatives")
    ELSE IF initiatives[i].type # "GROUP" /\ ~is_assigned(i, u)
    THEN Refuse("submit_initiative", 400, "User is not assigned to this initiative")
    ELSE IF ~docs_ok
    THEN Refuse("submit_initiative", 400,
                "Document not found or not associated with this initiative")
    ELSE /\ SetInitiative(i, [initiatives[i] EXCEPT
                !.status = "UNDER_REVIEW",
                !.submissions = IF @ < MaxSubmissions THEN @ + 1 ELSE @])
         /\ Respond("submit_initiative", 200, {})
         /\ UNCHANGED <<now, extensions, goalVars>>

\* The scores a review request may carry: below, inside and above 1..10.
ScoreChoices == {0, 7, 11}

\* InitiativeWorkflowService.review_initiative and POST /initiatives/{id}/review
review_initiative(u, i, score, approved) ==
    IF ~(1 <= score /\ score <= 10)
    THEN Refuse("review_initiative", 422, "score must be between 1 and 10")
    ELSE IF i > Len(initiatives)
    THEN Refuse("review_initiative", 400, "Failed to review initiative")
    ELSE IF initiatives[i].status # "UNDER_REVIEW"
    THEN Refuse("review_initiative", 400, "Initiative must be UNDER_REVIEW to review")
    ELSE IF initiatives[i].created_by # u
            /\ User[initiatives[i].created_by].supervisor_id # u
    THEN Refuse("review_initiative", 400,
                "Only initiative creator or supervisor can review submissions")
    ELSE /\ SetInitiative(i, [initiatives[i] EXCEPT
                !.status = IF approved THEN "APPROVED" ELSE "ONGOING"])
         /\ Respond("review_initiative", 200, {})
         /\ UNCHANGED <<now, extensions, goalVars>>

\* request_extension without the check for a pending extension.
request_extension_no_pending_check(u, i, new_due_date) ==
    IF new_due_date <= now
    THEN Refuse("request_extension", 422, "New due date must be in the future")
    ELSE IF i > Len(initiatives)
            \/ (initiatives[i].type = "GROUP" /\ initiatives[i].team_head_id # u)
            \/ (initiatives[i].type # "GROUP" /\ ~is_assigned(i, u))
    THEN Refuse("request_extension", 400, "")
    ELSE /\ Len(extensions) < MaxExtensions
         /\ extensions' = Append(extensions,
                [initiative_id |-> i, status |-> "PENDING", new_due_date |-> new_due_date])
         /\ Respond("request_extension", 200, {})
         /\ UNCHANGED <<now, initiatives, goalVars>>

\* InitiativeWorkflowService.request_extension and
\* POST /initiatives/{id}/extension-request
request_extension(u, i, new_due_date) ==
    IF new_due_date <= now
    THEN Refuse("request_extension", 422, "New due date must be in the future")
    ELSE IF i > Len(initiatives)
    THEN Refuse("request_extension", 400, "Initiative not found")
    ELSE IF initiatives[i].type = "GROUP" /\ initiatives[i].team_head_id # u
    THEN Refuse("request_extension", 400,
                "Only team head can request extensions for group initiatives")
    ELSE IF initiatives[i].type # "GROUP" /\ ~is_assigned(i, u)
    THEN Refuse("request_extension", 400, "User is not assigned to this initiative")
    ELSE IF pending_extensions(i) # {}
    THEN Refuse("request_extension", 400,
                "Extension request already pending for this initiative")
    ELSE /\ Len(extensions) < MaxExtensions
         /\ extensions' = Append(extensions,
                [initiative_id |-> i, status |-> "PENDING", new_due_date |-> new_due_date])
         /\ Respond("request_extension", 200, {})
         /\ UNCHANGED <<now, initiatives, goalVars>>

\* InitiativeWorkflowService.review_extension
svc_review_extension(e, reviewer_id, approved) ==
    LET i == extensions[e].initiative_id IN
    IF initiatives[i].created_by # reviewer_id
    THEN Refuse("review_extension", 400,
                "Only initiative creator can review extension requests")
    ELSE IF extensions[e].status # "PENDING"
    THEN Refuse("review_extension", 400, "Extension request has already been reviewed")
    ELSE /\ extensions' = [extensions EXCEPT
                ![e].status = IF approved THEN "APPROVED" ELSE "DENIED"]
         /\ initiatives' =
                IF approved
                THEN [initiatives EXCEPT
                        ![i].due_date = extensions[e].new_due_date,
                        ![i].status = IF @ = "OVERDUE" THEN "ONGOING" ELSE @]
                ELSE initiatives
         /\ Respond("review_extension", 200, {})
         /\ UNCHANGED <<now, goalVars>>

\* PUT /initiatives/{id}/extension/{extension_id} : the handler passes
\* review_data.status == "approved" as the service's `approved` argument.
review_extension(u, e, status) ==
    IF e > Len(extensions)
    THEN Refuse("review_extension", 400, "Failed to review extension")
    ELSE svc_review_extension(e, u, status = "approved")

\* InitiativeWorkflowService.update_overdue_initiatives (the daily job)
update_overdue_initiatives ==
    /\ initiatives' = [i \in DOMAIN initiatives |->
            IF /\ initiatives[i].status \in {"PENDING", "ONGOING", "UNDER_REVIEW"}
               /\ initiatives[i].due_date < now
               /\ initiatives[i].status # "APPROVED"
            THEN [initiatives[i] EXCEPT !.status = "OVERDUE"]
            ELSE initiatives[i]]
    /\ Respond("update_overdue_initiatives", 0, {})
    /\ UNCHANGED <<now, extensions, goalVars>>

\* Time passes.
Tick ==
    /\ now < MaxTime
    /\ now' = now + 1
    /\ UNCHANGED <<initiatives, extensions, goalVars, reviewVars, organizations, wsVars, resp, notified, notifier>>

\* ------------------------------------------------------------------- goals
\* models.GoalScope / schemas.goals.GoalScope
GoalScope == {"COMPANY_WIDE", "DEPARTMENTAL", "INDIVIDUAL"}

\* models.GoalType
GoalType == {"YEARLY", "QUARTERLY"}

\* models.GoalStatus
GoalStatus == {"PENDING_APPROVAL", "ACTIVE", "ACHIEVED", "DISCARDED", "REJECTED"}

GoalIds == 1..MaxGoals

\* The percentages and titles a request may carry.
PercentChoices == {0, 100}

\* The bodies a progress request may carry: new_percentage and report.
ProgressChoices ==
    {<<0, "report">>, <<100, "report">>, <<0 - 1, "report">>, <<101, "report">>,
     <<100, "">>}
TitleChoices == {"title", "edited"}

\* db.query(Goal).filter(Goal.id == goal_id).first() finds a row.
goal_found(g) == g <= Len(goals) /\ ~goals[g].deleted

\* db.query(Goal).filter(Goal.parent_goal_id == goal_id): the child rows of g.
child_goals(g) == {c \in 1..Len(goals) : ~goals[c].deleted /\ goals[c].parent_goal_id = {g}}

\* The handlers below change the row of one goal.
SetGoal(g, rec) == goals' = [goals EXCEPT ![g] = rec]

\* A goal handler that commits, then creates the notification rows `rows`
\* inside try / except, and answers 200.
CommitNotify(op, g, rec, rows) ==
    /\ SetGoal(g, rec)
    /\ Respond(op, 200, rows)
    /\ UNCHANGED <<initiativeVars, goalSideVars>>

\* A goal handler that commits and answers 200.
Commit(op, g, rec) == CommitNotify(op, g, rec, {})

\* GoalCascadeService.validate_goal_relationship: a DEPARTMENTAL goal's parent is
\* COMPANY_WIDE, an INDIVIDUAL goal's parent is DEPARTMENTAL or COMPANY_WIDE, and
\* no goal has a broader scope than its parent.
validate_goal_relationship(parent_goal_id, scope) ==
    IF scope = "INDIVIDUAL"
    THEN goals[parent_goal_id].scope \in {"DEPARTMENTAL", "COMPANY_WIDE"}
    ELSE goals[parent_goal_id].scope = "COMPANY_WIDE"

\* The creation requests sent to POST /goals/ : who sends it and the scope,
\* type, quarter, year, organization_id and parent_goal_id of the body (year 0
\* and quarter "none": the body leaves the key out).
GoalCreateChoices == {
    <<"hod", "COMPANY_WIDE", "YEARLY", "none", 0, NoOrg, {}>>,
    <<"hod", "DEPARTMENTAL", "YEARLY", "none", 0, NoOrg, {}>>,
    <<"hod", "DEPARTMENTAL", "YEARLY", "none", 0, "depA", {1}>>,
    <<"emp", "INDIVIDUAL", "QUARTERLY", "Q1", 2025, NoOrg, {1}>>,
    <<"emp", "COMPANY_WIDE", "YEARLY", "none", 0, NoOrg, {}>>,
    <<"sup", "INDIVIDUAL", "QUARTERLY", "none", 0, NoOrg, {}>>}

\* A new row of table goals.
NewGoal(scope, type, quarter, year, organization_id, parent_goal_id, created_by, owner_id, assigned_to) ==
    [scope |-> scope, type |-> type, status |-> "ACTIVE", progress_percentage |-> 0,
     quarter |-> quarter, year |-> year, organization_id |-> organization_id,
     parent_goal_id |-> parent_goal_id, created_by |-> created_by, owner_id |-> owner_id,
     assigned_to |-> assigned_to, title |-> "title", frozen |-> FALSE, deleted |-> FALSE]

\* The place of a row that db.delete(goal) removed.
DeletedGoal ==
    [NewGoal("INDIVIDUAL", "YEARLY", "none", 0, NoOrg, {}, NoUser, NoUser, NoUser)
        EXCEPT !.deleted = TRUE]

\* The permission POST /goals/ asks for a goal that is not INDIVIDUAL.
required_permission(scope, type) ==
    IF scope = "COMPANY_WIDE"
    THEN IF type = "YEARLY" THEN "goal_create_yearly" ELSE "goal_create_quarterly"
    ELSE "goal_create_departmental"

\* NotificationService.notify_goal_created: the rows it creates.  It returns
\* at once unless goal.type.value is "INDIVIDUAL".
notify_goal_created(type, created_by) ==
    IF type # "INDIVIDUAL" THEN {}
    ELSE IF User[created_by].supervisor_id # NoUser
    THEN {Notification(User[created_by].supervisor_id, "goal_created")}
    ELSE {}

\* POST /goals/
create_goal(u, scope, type, quarter, year, organization_id, parent_goal_id) ==
    /\ Len(goals) < MaxGoals
    /\ IF scope # "INDIVIDUAL" /\ ~user_has_permission(u, required_permission(scope, type))
       THEN Refuse("create_goal", 403, "Missing permission")
       ELSE IF scope = "DEPARTMENTAL" /\ organization_id = NoOrg
       THEN Refuse("create_goal", 400, "Organization ID is required for departmental goals")
       ELSE IF scope = "DEPARTMENTAL" /\ ~user_can_access_organization(u, organization_id)
       THEN Refuse("create_goal", 403,
                   "Cannot create goal for organization outside your scope")
       ELSE IF \E p \in parent_goal_id : ~goal_found(p)
       THEN Refuse("create_goal", 404, "Parent goal not found")
       ELSE IF \E p \in parent_goal_id : ~validate_goal_relationship(p, scope)
       THEN Refuse("create_goal", 400, "Invalid parent-child goal relationship")
       ELSE IF type = "QUARTERLY" /\ (quarter = "none" \/ year = 0)
       THEN Refuse("create_goal", 400, "Quarter and year are required for quarterly goals")
       ELSE /\ goals' = Append(goals,
                    NewGoal(scope, type,
                            IF type = "QUARTERLY" THEN quarter ELSE "none",
                            IF type = "QUARTERLY" THEN year ELSE 0,
                            organization_id, parent_goal_id, u, u, NoUser))
            /\ Respond("create_goal", 200,
                       IF scope = "INDIVIDUAL" /\ User[u].supervisor_id # NoUser
                       THEN notify_goal_created(type, u)
                       ELSE {})
            /\ UNCHANGED <<initiativeVars, goalSideVars>>

\* More requests to POST /goals/ : INDIVIDUAL goals of either type, by a user
\* who has a supervisor and by one who has none.
IndividualGoalChoices == {
    <<"emp", "INDIVIDUAL", "YEARLY", "Q1", 2025, NoOrg, {}>>,
    <<"emp", "INDIVIDUAL", "QUARTERLY", "Q1", 2025, NoOrg, {}>>,
    <<"out", "INDIVIDUAL", "QUARTERLY", "Q1", 2025, NoOrg, {}>>}

\* The requests sent to POST /goals/create-for-supervisee : who sends it, the
\* supervisee_id and the scope, type, quarter, year and parent_goal_id of the
\* body.
SuperviseeGoalChoices == {
    <<"sup", "emp", "INDIVIDUAL", "QUARTERLY", "Q1", 2025, {}>>,
    <<"hod", "emp", "INDIVIDUAL", "QUARTERLY", "Q1", 2025, {}>>,
    <<"sup", "emp", "DEPARTMENTAL", "QUARTERLY", "Q1", 2025, {}>>,
    <<"sup", "emp", "INDIVIDUAL", "QUARTERLY", "none", 2025, {}>>}

\* More requests to POST /goals/create-for-supervisee : a body that names a
\* parent goal, and a YEARLY body.
SuperviseeParentChoices == {
    <<"sup", "emp", "INDIVIDUAL", "QUARTERLY", "Q1", 2025, {1}>>,
    <<"sup", "emp", "INDIVIDUAL", "YEARLY", "Q1", 2025, {}>>}

\* POST /goals/create-for-supervisee : the goal and its goal_assignments row.
\* parent_goal_id is stored as sent; only the foreign key of the column stands
\* in the way of a parent that does not exist.
create_goal_for_supervisee(u, supervisee_id, scope, type, quarter, year, parent_goal_id) ==
    /\ Len(goals) < MaxGoals
    /\ IF User[supervisee_id].supervisor_id # u
       THEN Refuse("create_goal_for_supervisee", 403,
                   "You can only create goals for your direct supervisees")
       ELSE IF scope # "INDIVIDUAL"
       THEN Refuse("create_goal_for_supervisee", 400,
                   "Only individual goals can be created for supervisees")
       ELSE IF quarter = "none" \/ year = 0
       THEN Refuse("create_goal_for_supervisee", 400,
                   "Quarter and year are required for individual goals")
       ELSE IF \E p \in parent_goal_id : ~goal_found(p)
       THEN Refuse("create_goal_for_supervisee", 500, "foreign key violation")
       ELSE /\ goals' = Append(goals,
                    NewGoal(scope, type, quarter, year, NoOrg, parent_goal_id, u,
                            supervisee_id, supervisee_id))
            /\ Respond("create_goal_for_supervisee", 200,
                       {Notification(supervisee_id, "goal_assigned")})
            /\ UNCHANGED <<initiativeVars, goalSideVars>>

\* PUT /goals/{goal_id}/respond
respond_to_assigned_goal(u, g, accepted) ==
    IF ~goal_found(g)
    THEN Refuse("respond_to_assigned_goal", 404, "Goal not found")
    ELSE IF goals[g].owner_id # u
    THEN Refuse("respond_to_assigned_goal", 403,
                "You can only respond to goals assigned to you")
    ELSE IF goals[g].status # "PENDING_APPROVAL"
    THEN Refuse("respond_to_assigned_goal", 400, "Goal is not pending approval")
    ELSE IF goals[g].frozen
    THEN Refuse("respond_to_assigned_goal", 400, "Cannot respond to frozen goal")
    ELSE IF goals[g].assigned_to # u
    THEN Refuse("respond_to_assigned_goal", 404, "Goal assignment not found")
    ELSE CommitNotify("respond_to_assigned_goal", g,
                [goals[g] EXCEPT !.status = IF accepted THEN "ACTIVE" ELSE "REJECTED"],
                IF goals[g].created_by = NoUser THEN {}
                ELSE {Notification(goals[g].created_by,
                                   IF accepted THEN "goal_accepted" ELSE "goal_declined")})

\* PUT /goals/{goal_id}/request-change
request_goal_change(u, g) ==
    IF ~goal_found(g)
    THEN Refuse("request_goal_change", 404, "Goal not found")
    ELSE IF goals[g].owner_id # u
    THEN Refuse("request_goal_change", 403,
                "You can only request changes to your own goals")
    ELSE IF goals[g].frozen
    THEN Refuse("request_goal_change", 400, "Cannot request changes to frozen goal")
    ELSE CommitNotify("request_goal_change", g,
                [goals[g] EXCEPT !.status = "PENDING_APPROVAL"],
                {Notification(IF User[u].supervisor_id # NoUser THEN User[u].supervisor_id
                              ELSE goals[g].created_by,
                              "goal_acceptance_required")})

\* PUT /goals/{goal_id} : only the title of the body is modelled
update_goal(u, g, title) ==
    IF ~user_has_permission(u, "goal_edit")
    THEN Refuse("update_goal", 403, "Insufficient permissions")
    ELSE IF ~goal_found(g)
    THEN Refuse("update_goal", 404, "Goal not found")
    ELSE IF goals[g].frozen
    THEN Refuse("update_goal", 400, "Cannot edit frozen goal")
    ELSE Commit("update_goal", g, [goals[g] EXCEPT !.title = title])

\* schemas.goals.GoalProgressUpdate, written without the min_length of report.
GoalProgressUpdate_any_report(new_percentage, report) ==
    new_percentage >= 0 /\ new_percentage <= 100

\* schemas.goals.GoalProgressUpdate: the body passes validation.
GoalProgressUpdate(new_percentage, report) ==
    /\ new_percentage >= 0 /\ new_percentage <= 100
    /\ report # ""

\* GoalCascadeService.update_goal_progress: "" when the progress is stored,
\* else the message of the ValueError.
svc_update_goal_progress(g, new_percentage, report) ==
    IF goals[g].frozen THEN "Cannot update progress of frozen goal"
    ELSE IF child_goals(g) # {} THEN "Cannot manually update progress of a goal with children"
    ELSE IF report = "" THEN "Progress report is required"
    ELSE IF new_percentage < 0 \/ new_percentage > 100
    THEN "Progress percentage must be between 0 and 100"
    ELSE ""

\* The service stores the percentage and one goal_progress_reports row.
store_progress(op, u, g, new_percentage, report) ==
    /\ Len(progress_reports) < MaxReports
    /\ SetGoal(g, [goals[g] EXCEPT !.progress_percentage = new_percentage])
    /\ progress_reports' = Append(progress_reports,
            [goal_id |-> g, new_percentage |-> new_percentage, report |-> report])
    /\ Respond(op, 200, {})
    /\ UNCHANGED <<initiativeVars, freeze_logs>>

\* GoalCascadeService.discard_goal: "" when the goal is discarded, else the
\* message of the error.
svc_discard_goal(g) ==
    IF goals[g].frozen THEN "Cannot discard frozen goal" ELSE ""

\* PUT /goals/{goal_id}/progress
update_goal_progress(u, g, new_percentage, report) ==
    IF ~GoalProgressUpdate(new_percentage, report)
    THEN Refuse("update_goal_progress", 422, "validation error")
    ELSE IF ~(user_has_permission(u, "system_admin")
              \/ user_has_permission(u, "goal_progress_update"))
    THEN Refuse("update_goal_progress", 403, "Insufficient permissions")
    ELSE IF ~goal_found(g)
    THEN Refuse("update_goal_progress", 404, "Goal not found")
    ELSE IF ~user_has_permission(u, "system_admin") /\ goals[g].created_by # u
    THEN Refuse("update_goal_progress", 403, "Cannot update progress for this goal")
    ELSE IF svc_update_goal_progress(g, new_percentage, report) # ""
    THEN Refuse("update_goal_progress", 400,
                svc_update_goal_progress(g, new_percentage, report))
    ELSE store_progress("update_goal_progress", u, g, new_percentage, report)

\* POST /goals/{goal_id}/progress-report
add_progress_report(u, g, new_percentage, report) ==
    IF ~GoalProgressUpdate(new_percentage, report)
    THEN Refuse("add_progress_report", 422, "validation error")
    ELSE IF ~user_has_permission(u, "goal_progress_update")
    THEN Refuse("add_progress_report", 403, "Insufficient permissions")
    ELSE IF ~goal_found(g)
    THEN Refuse("add_progress_report", 400, "Failed to add progress report")
    ELSE IF svc_update_goal_progress(g, new_percentage, report) # ""
    THEN Refuse("add_progress_report", 400,
                svc_update_goal_progress(g, new_percentage, report))
    ELSE store_progress("add_progress_report", u, g, new_percentage, report)

\* PUT /goals/{goal_id}/status.  DISCARDED goes to
\* GoalCascadeService.discard_goal, whose error is not caught by the handler.
\* For ACHIEVED the handler evaluates db.func.now() on the Session (line 1070),
\* which has no attribute func: the AttributeError ends the request before
\* db.commit(), so neither the status nor progress_percentage is stored and
\* check_goal_auto_achievement (line 1077) is never reached.
update_goal_status(u, g, status) ==
    IF ~user_has_permission(u, "goal_status_change")
    THEN Refuse("update_goal_status", 403, "Insufficient permissions")
    ELSE IF ~goal_found(g)
    THEN Refuse("update_goal_status", 404, "Goal not found")
    ELSE IF status = "DISCARDED"
    THEN IF svc_discard_goal(g) # ""
         THEN Refuse("update_goal_status", 500, svc_discard_goal(g))
         ELSE Commit("update_goal_status", g, [goals[g] EXCEPT !.status = "DISCARDED"])
    ELSE IF status = "ACHIEVED"
    THEN Refuse("update_goal_status", 500, "'Session' object has no attribute 'func'")
    ELSE Commit("update_goal_status", g, [goals[g] EXCEPT !.status = status])

\* PUT /goals/{goal_id}/approve and schemas.goals.GoalApproval
approve_goal(u, g, approved, rejection_reason) ==
    IF ~approved /\ rejection_reason = ""
    THEN Refuse("approve_goal", 422, "Rejection reason is required when rejecting a goal")
    ELSE IF ~goal_found(g)
    THEN Refuse("approve_goal", 404, "Goal not found")
    ELSE IF goals[g].scope # "INDIVIDUAL"
    THEN Refuse("approve_goal", 400, "Only INDIVIDUAL goals require approval")
    ELSE IF goals[g].status # "PENDING_APPROVAL"
    THEN Refuse("approve_goal", 400, "Goal is not pending approval")
    ELSE IF ~(User[goals[g].owner_id].supervisor_id = u
              \/ user_has_permission(u, "goal_approve"))
    THEN Refuse("approve_goal", 403,
                "Only supervisors or authorized users can approve goals")
    ELSE IF goals[g].frozen
    THEN Refuse("approve_goal", 400, "Cannot approve frozen goal")
    ELSE CommitNotify("approve_goal", g,
                [goals[g] EXCEPT !.status = IF approved THEN "ACTIVE" ELSE "REJECTED"],
                {Notification(goals[g].owner_id,
                              IF approved THEN "goal_approved" ELSE "goal_rejected")})

\* DELETE /goals/{goal_id}.  The goal_assignments row of a goal keeps a
\* NOT NULL goal_id and the relationship has no delete cascade, so deleting a
\* goal that has one fails at the commit.
delete_goal(u, g) ==
    IF ~goal_found(g)
    THEN Refuse("delete_goal", 404, "Goal not found")
    ELSE IF goals[g].frozen
    THEN Refuse("delete_goal", 400, "Cannot delete frozen goal")
    ELSE IF ~(goals[g].created_by = u \/ goals[g].owner_id = u
              \/ user_has_permission(u, "goal_edit"))
    THEN Refuse("delete_goal", 403, "You do not have permission to delete this goal")
    ELSE IF child_goals(g) # {}
    THEN Refuse("delete_goal", 400, "Cannot delete goal with child goals")
    ELSE IF goals[g].assigned_to # NoUser
    THEN Refuse("delete_goal", 500, "IntegrityError")
    ELSE Commit("delete_goal", g, DeletedGoal)

\* POST /goals/{goal_id}/freeze
freeze_goal(u, g) ==
    IF ~user_has_permission(u, "goal_freeze")
    THEN Refuse("freeze_goal", 403, "Insufficient permissions to freeze goals")
    ELSE IF ~goal_found(g)
    THEN Refuse("freeze_goal", 404, "Goal not found")
    ELSE IF goals[g].frozen
    THEN Refuse("freeze_goal", 400, "Goal is already frozen")
    ELSE Commit("freeze_goal", g, [goals[g] EXCEPT !.frozen = TRUE])

\* POST /goals/{goal_id}/unfreeze
unfreeze_goal(u, g) ==
    IF ~user_has_permission(u, "goal_freeze")
    THEN Refuse("unfreeze_goal", 403, "Insufficient permissions to unfreeze goals")
    ELSE IF ~goal_found(g)
    THEN Refuse("unfreeze_goal", 404, "Goal not found")
    ELSE IF ~goals[g].frozen
    THEN Refuse("unfreeze_goal", 400, "Goal is not frozen")
    ELSE Commit("unfreeze_goal", g, [goals[g] EXCEPT !.frozen = FALSE])

\* schemas.goals.Quarter: the quarters and years a freeze request may name.
QuarterChoices == {"Q1", "Q2"}
YearChoices == {2025}

\* The INDIVIDUAL goals of (quarter, year) whose frozen flag is `frozen`.
quarter_goals(quarter, year, frozen) ==
    {g \in 1..Len(goals) :
        /\ ~goals[g].deleted
        /\ goals[g].scope = "INDIVIDUAL"
        /\ goals[g].quarter = quarter
        /\ goals[g].year = year
        /\ goals[g].frozen = frozen}

\* emergency_reason None (JSON null, or the default of an omitted key).
NoReason == "none"

\* The emergency part of the bodies sent to the unfreeze endpoint:
\* is_emergency_override and emergency_reason (omitted, null, empty, given).
EmergencyChoices == {<<FALSE, Omitted>>, <<TRUE, "reason">>, <<TRUE, Omitted>>, <<TRUE, "">>, <<TRUE, NoReason>>}

\* UnfreezeGoalsRequest.validate_emergency_reason: the validator of field
\* emergency_reason, which is not run when the key is omitted.
validate_emergency_reason(is_emergency_override, emergency_reason) ==
    IF emergency_reason = Omitted THEN ""
    ELSE IF is_emergency_override /\ emergency_reason \in {NoReason, ""}
    THEN "Emergency reason is required for emergency overrides"
    ELSE ""

\* A row of table goal_freeze_logs (is_emergency_override defaults to False).
FreezeLog(action, quarter, year, affected_goals_count, performed_by) ==
    [action |-> action, quarter |-> quarter, year |-> year,
     affected_goals_count |-> affected_goals_count, performed_by |-> performed_by,
     is_emergency_override |-> FALSE, emergency_reason |-> NoReason]

\* The same body, written without the log row of a call that matches no goal.
set_quarter_frozen_skip_empty(op, action, u, quarter, year, target, is_emergency_override, emergency_reason) ==
    LET matched == quarter_goals(quarter, year, ~target) IN
    /\ goals' = [g \in 1..Len(goals) |->
                    IF g \in matched THEN [goals[g] EXCEPT !.frozen = target]
                    ELSE goals[g]]
    /\ freeze_logs' = IF matched = {} THEN freeze_logs
                      ELSE Append(freeze_logs,
                                  [FreezeLog(action, quarter, year, Cardinality(matched), u) EXCEPT !.is_emergency_override = is_emergency_override, !.emergency_reason = emergency_reason])
    /\ Respond(op, 200, {Notification(goals[g].owner_id, "system_announcement") :
                            g \in matched})
    /\ UNCHANGED <<initiativeVars, progress_reports>>

\* The body shared by the two quarter handlers: every matched goal gets the
\* target flag and one log row carries the number of matched goals.
set_quarter_frozen(op, action, u, quarter, year, target, is_emergency_override, emergency_reason) ==
    LET matched == quarter_goals(quarter, year, ~target) IN
    /\ goals' = [g \in 1..Len(goals) |->
                    IF g \in matched THEN [goals[g] EXCEPT !.frozen = target]
                    ELSE goals[g]]
    /\ freeze_logs' = Append(freeze_logs,
                             [FreezeLog(action, quarter, year, Cardinality(matched), u) EXCEPT !.is_emergency_override = is_emergency_override, !.emergency_reason = emergency_reason])
    /\ Respond(op, 200, {Notification(goals[g].owner_id, "system_announcement") :
                            g \in matched})
    /\ UNCHANGED <<initiativeVars, progress_reports>>

\* POST /goals/freeze-quarter
freeze_goals_for_quarter(u, quarter, year) ==
    /\ Len(freeze_logs) < MaxFreezeLogs
    /\ IF ~user_has_permission(u, "goal_freeze")
       THEN Refuse("freeze_goals_for_quarter", 403,
                   "You do not have permission to freeze goals")
       ELSE set_quarter_frozen("freeze_goals_for_quarter", "freeze", u, quarter, year, TRUE, FALSE, NoReason)

\* POST /goals/unfreeze-quarter
unfreeze_goals_for_quarter(u, quarter, year, is_emergency_override, emergency_reason) ==
    /\ Len(freeze_logs) < MaxFreezeLogs
    /\ IF validate_emergency_reason(is_emergency_override, emergency_reason) # ""
       THEN Refuse("unfreeze_goals_for_quarter", 422, validate_emergency_reason(is_emergency_override, emergency_reason))
       ELSE IF ~user_has_permission(u, "goal_freeze")
       THEN Refuse("unfreeze_goals_for_quarter", 403,
                   "You do not have permission to unfreeze goals")
       ELSE set_quarter_frozen("unfreeze_goals_for_quarter", "unfreeze", u, quarter, year, FALSE, is_emergency_override, IF emergency_reason = Omitted THEN NoReason ELSE emergency_reason)

\* ------------------------------------------------------- the organisation tree
OrganizationLevel == {"global", "directorate", "department", "division", "unit"}

\* level_order of create_organization.
level_order == [global |-> 0, directorate |-> 1, department |-> 2, division |-> 3, unit |-> 4]

\* The ids of the organisations created by requests.
NewOrgIds == {"org1", "org2"}

\* The names a request gives to an organisation.
OrgNames == {"x", "depB"}

\* The answer of an organisation endpoint.
OrgRespond(op, code) ==
    /\ resp' = Response(op, code, "")
    /\ notified' = {}
    /\ UNCHANGED <<notifier, dataVars, reviewVars, wsVars>>

OrgRefuse(op, code) ==
    /\ OrgRespond(op, code)
    /\ UNCHANGED organizations

\* OrganizationCreate.validate_parent_for_level: the validator of field
\* parent_id, which is not run when the key is omitted.
validate_parent_for_level(level, parent_id) ==
    IF parent_id = Omitted THEN ""
    ELSE IF level = "global" /\ parent_id # NoOrg THEN "Global organization cannot have a parent"
    ELSE IF level # "global" /\ parent_id = NoOrg THEN "Non-global organizations must have a parent"
    ELSE ""

\* The organisations whose parent_id is parent_id (None matches the rows
\* without parent).
siblings(parent_id) == {o \in DOMAIN organizations : organizations[o].parent_id = parent_id}

\* POST /organizations/
create_organization(u, name, level, parent_id) ==
    LET parent == IF parent_id = Omitted THEN NoOrg ELSE parent_id IN
    IF validate_parent_for_level(level, parent_id) # "" THEN OrgRefuse("create_organization", 422)
    ELSE IF ~user_has_permission(u, "organization_create") THEN OrgRefuse("create_organization", 403)
    ELSE IF level = "global" /\ \E o \in DOMAIN organizations : organizations[o].level = "global"
    THEN OrgRefuse("create_organization", 400)
    ELSE IF level = "global" /\ parent # NoOrg THEN OrgRefuse("create_organization", 400)
    ELSE IF level # "global" /\ parent = NoOrg THEN OrgRefuse("create_organization", 400)
    ELSE IF level # "global" /\ parent \notin DOMAIN organizations THEN OrgRefuse("create_organization", 404)
    ELSE IF level # "global" /\ ~user_can_access_organization(u, parent) THEN OrgRefuse("create_organization", 403)
    ELSE IF level # "global" /\ level_order[level] # level_order[organizations[parent].level] + 1
    THEN OrgRefuse("create_organization", 400)
    ELSE IF \E o \in siblings(parent) : organizations[o].name = name THEN OrgRefuse("create_organization", 400)
    ELSE \E id \in NewOrgIds \ DOMAIN organizations :
            /\ organizations' = [o \in DOMAIN organizations \cup {id} |-> IF o = id THEN [name |-> name, level |-> level, parent_id |-> parent] ELSE organizations[o]]
            /\ OrgRespond("create_organization", 200)

\* PUT /organizations/{organization_id}
update_organization(u, id, name) ==
    IF ~user_has_permission(u, "organization_edit") THEN OrgRefuse("update_organization", 403)
    ELSE IF id \notin DOMAIN organizations THEN OrgRefuse("update_organization", 404)
    ELSE IF ~user_can_access_organization(u, id) THEN OrgRefuse("update_organization", 403)
    ELSE IF \E o \in siblings(organizations[id].parent_id) \ {id} : organizations[o].name = name
    THEN OrgRefuse("update_organization", 400)
    ELSE /\ organizations' = [organizations EXCEPT ![id].name = name]
         /\ OrgRespond("update_organization", 200)

\* DELETE /organizations/{organization_id}
delete_organization(u, id) ==
    IF ~user_has_permission(u, "organization_delete") THEN OrgRefuse("delete_organization", 403)
    ELSE IF id \notin DOMAIN organizations THEN OrgRefuse("delete_organization", 404)
    ELSE IF ~user_can_access_organization(u, id) THEN OrgRefuse("delete_organization", 403)
    ELSE IF siblings(id) # {} THEN OrgRefuse("delete_organization", 400)
    ELSE IF \E w \in Users : User[w].organization_id = id THEN OrgRefuse("delete_organization", 400)
    ELSE /\ organizations' = [o \in DOMAIN organizations \ {id} |-> organizations[o]]
         /\ OrgRespond("delete_organization", 200)

\* ------------------------------------------------------------ the review scores
\* One review cycle with one active trait and one active question of that
\* trait, asked in self and supervisor reviews but not in peer reviews.
ReviewCycles == {"c1"}
ReviewCycleTraits == {[cycle_id |-> "c1", trait_id |-> "t1", is_active |-> TRUE]}
ReviewQuestions == {[id |-> "q1", trait_id |-> "t1", is_active |-> TRUE, applies_to |-> {"self", "supervisor"}]}
ReviewTypes == {"self", "peer", "supervisor"}

ReviewAssignment(review_type, reviewer_id, reviewee_id) == [review_type |-> review_type, status |-> "pending", cycle_id |-> "c1", reviewer_id |-> reviewer_id, reviewee_id |-> reviewee_id]

\* The assignments of the cycle: emp is reviewed by emp (self) and by sup
\* (supervisor); sup is reviewed by emp (peer).
ReviewAssignments == <<ReviewAssignment("self", "emp", "emp"), ReviewAssignment("supervisor", "sup", "emp"), ReviewAssignment("peer", "emp", "sup")>>

\* A score is a fraction; None has denominator 0.
NoScore == [num |-> 0, den |-> 0]
\* The value that stands for "the call raised AttributeError".
AttributeError == [num |-> 0, den |-> 0 - 1]
\* A response entry whose rating is None.
NoRating == 0 - 1

\* The bodies a reviewer sends: no answer, an answer without rating, ratings
\* inside the range, and a rating outside 1..10.
ResponseChoices == {<<>>, <<[question_id |-> "q1", rating |-> NoRating]>>, <<[question_id |-> "q1", rating |-> 4]>>, <<[question_id |-> "q1", rating |-> 5]>>, <<[question_id |-> "q1", rating |-> 11]>>}

\* _calculate_trait_score_by_type: None without a completed assignment of the
\* type or without a question of the trait that applies to the type.  With
\* both, the query of the responses names ReviewResponse, which in this module
\* is the pydantic class of line 94 and has no attribute assignment_id: the
\* call raises before any rating is read.
calculate_trait_score_by_type(asg, cycle_id, user_id, trait_id, review_type) ==
    LET assignments == {a \in DOMAIN asg : /\ asg[a].cycle_id = cycle_id
                                           /\ asg[a].reviewee_id = user_id
                                           /\ asg[a].review_type = review_type
                                           /\ asg[a].status = "completed"}
        question_ids == {q.id : q \in {x \in ReviewQuestions : /\ x.trait_id = trait_id
                                                                /\ x.is_active
                                                                /\ review_type \in x.applies_to}}
    IN  IF assignments = {} THEN NoScore
        ELSE IF question_ids = {} THEN NoScore
        ELSE AttributeError

\* One term of the weighted sum: a missing score has weight 0.
weighted_term(score, weight) == IF score = NoScore THEN [num |-> 0, den |-> 1, w |-> 0] ELSE [num |-> score.num, den |-> score.den, w |-> weight]

\* The weighted score of _calculate_user_review_scores, weights in tenths:
\* (self * 0.2 + peer * 0.3 + supervisor * 0.5) / total_weight * 10 over the
\* scores that exist.
weighted_score(self_score, peer_score, supervisor_score) ==
    LET a == weighted_term(self_score, 2)
        b == weighted_term(peer_score, 3)
        c == weighted_term(supervisor_score, 5)
        total_weight == a.w + b.w + c.w
        weighted_total == [num |-> a.num * a.w * b.den * c.den + b.num * b.w * a.den * c.den + c.num * c.w * a.den * b.den, den |-> a.den * b.den * c.den]
    IN  IF total_weight > 0
        THEN [num |-> weighted_total.num * 10, den |-> weighted_total.den * total_weight]
        ELSE NoScore

active_traits(cycle_id) == {ct.trait_id : ct \in {x \in ReviewCycleTraits : x.cycle_id = cycle_id /\ x.is_active}}

\* Whether _calculate_user_review_scores raises for the user.
calculation_raises(asg, cycle_id, user_id) ==
    \E t \in active_traits(cycle_id), ty \in ReviewTypes : calculate_trait_score_by_type(asg, cycle_id, user_id, t, ty) = AttributeError

ReviewScore(asg, cycle_id, user_id, trait_id) ==
    LET self_score == calculate_trait_score_by_type(asg, cycle_id, user_id, trait_id, "self")
        peer_score == calculate_trait_score_by_type(asg, cycle_id, user_id, trait_id, "peer")
        supervisor_score == calculate_trait_score_by_type(asg, cycle_id, user_id, trait_id, "supervisor")
    IN  [cycle_id |-> cycle_id, user_id |-> user_id, trait_id |-> trait_id, self_score |-> self_score, peer_score |-> peer_score, supervisor_score |-> supervisor_score, weighted_score |-> weighted_score(self_score, peer_score, supervisor_score)]

\* _calculate_user_review_scores when no call raises: one row per active
\* trait of the cycle, replacing the row of the same cycle, user and trait.
calculate_user_review_scores(asg, scores, cycle_id, user_id) ==
    {s \in scores : ~(s.cycle_id = cycle_id /\ s.user_id = user_id /\ s.trait_id \in active_traits(cycle_id))}
        \cup {ReviewScore(asg, cycle_id, user_id, t) : t \in active_traits(cycle_id)}

\* _calculate_scores_if_ready: every assignment of the pair is completed.
scores_ready(asg, cycle_id, user_id) ==
    LET total == {a \in DOMAIN asg : asg[a].cycle_id = cycle_id /\ asg[a].reviewee_id = user_id}
        completed == {a \in total : asg[a].status = "completed"}
    IN  Cardinality(total) = Cardinality(completed) /\ Cardinality(total) > 0

\* The answer of a review endpoint.
ReviewRespond(op, code) ==
    /\ resp' = Response(op, code, "")
    /\ notified' = {}
    /\ UNCHANGED <<notifier, dataVars, organizations, wsVars>>

ReviewRefuse(op, code) ==
    /\ ReviewRespond(op, code)
    /\ UNCHANGED reviewVars

\* The response rows after the loop over response_list: entries without a
\* rating are skipped, the last entry of a question wins.
saved_responses(a, response_list) ==
    LET rated == {i \in DOMAIN response_list : response_list[i].rating # NoRating}
        last == {i \in rated : \A j \in rated : response_list[j].question_id = response_list[i].question_id => j <= i}
        answered == {response_list[i].question_id : i \in rated}
    IN  {r \in review_responses : ~(r.assignment_id = a /\ r.question_id \in answered)}
            \cup {[assignment_id |-> a, question_id |-> response_list[i].question_id, rating |-> response_list[i].rating] : i \in last}

\* POST /reviews/assignments/{assignment_id}/submit
submit_review_assignment(u, a, response_list, is_draft) ==
    IF a \notin DOMAIN review_assignments THEN ReviewRefuse("submit_review_assignment", 404)
    ELSE IF review_assignments[a].reviewer_id # u THEN ReviewRefuse("submit_review_assignment", 403)
    ELSE IF review_assignments[a].status = "completed" THEN ReviewRefuse("submit_review_assignment", 400)
    ELSE IF \E i \in DOMAIN response_list : response_list[i].rating # NoRating /\ ~(response_list[i].rating \in 1..10)
    THEN ReviewRefuse("submit_review_assignment", 400)
    ELSE LET asg == IF is_draft THEN review_assignments ELSE [review_assignments EXCEPT ![a].status = "completed"]
             cycle_id == review_assignments[a].cycle_id
             reviewee_id == review_assignments[a].reviewee_id
         IN  /\ review_assignments' = asg
             /\ review_responses' = saved_responses(a, response_list)
             /\ IF is_draft \/ ~scores_ready(asg, cycle_id, reviewee_id)
                THEN /\ review_scores' = review_scores
                     /\ ReviewRespond("submit_review_assignment", 200)
                ELSE IF calculation_raises(asg, cycle_id, reviewee_id)
                THEN /\ review_scores' = review_scores
                     /\ ReviewRespond("submit_review_assignment", 500)
                ELSE /\ review_scores' = calculate_user_review_scores(asg, review_scores, cycle_id, reviewee_id)
                     /\ ReviewRespond("submit_review_assignment", 200)

\* The loop of calculate_cycle_scores over the reviewees in `order`: each
\* call commits its rows, a call that raises ends the request.
RECURSIVE calculate_users(_, _, _)
calculate_users(cycle_id, order, scores) ==
    IF order = <<>> THEN [scores |-> scores, raised |-> FALSE]
    ELSE IF calculation_raises(review_assignments, cycle_id, Head(order)) THEN [scores |-> scores, raised |-> TRUE]
    ELSE calculate_users(cycle_id, Tail(order), calculate_user_review_scores(review_assignments, scores, cycle_id, Head(order)))

\* The orders in which the query of the distinct reviewees can return them.
reviewee_orders(cycle_id) ==
    LET user_ids == {review_assignments[a].reviewee_id : a \in {x \in DOMAIN review_assignments : review_assignments[x].cycle_id = cycle_id}}
    IN  {o \in UNION {[1..n -> user_ids] : n \in 0..Cardinality(user_ids)} : /\ Len(o) = Cardinality(user_ids)
                                                                           /\ \A i, j \in DOMAIN o : i # j => o[i] # o[j]}

\* POST /reviews/cycles/{cycle_id}/calculate-scores
calculate_cycle_scores(u, cycle_id) ==
    IF "review_create_cycle" \notin User[u].permissions THEN ReviewRefuse("calculate_cycle_scores", 403)
    ELSE IF cycle_id \notin ReviewCycles THEN ReviewRefuse("calculate_cycle_scores", 404)
    ELSE \E order \in reviewee_orders(cycle_id) :
            LET done == calculate_users(cycle_id, order, review_scores)
            IN  /\ review_scores' = done.scores
                /\ UNCHANGED <<review_assignments, review_responses>>
                /\ ReviewRespond("calculate_cycle_scores", IF done.raised THEN 500 ELSE 200)

\* ------------------------------------------------ the WebSocket connection registry
\* The WebSocket objects of the clients and the users that open them.
WebSockets == {"w1", "w2"}
WsUsers == {"emp", "sup"}

\* The value of a key that is not in the dict active_connections.
NoEntry == [present |-> FALSE, connections |-> {}]

\* No send_personal_notification call is in progress. A call in progress holds
\* the user, the size the set had when the loop began (the iterator's si_used),
\* the connections of that set not yet visited, the connections visited,
\* dead_connections, and whether the set the loop iterates has meanwhile been
\* deleted from the dict.
NoSend == [user |-> NoUser, used |-> 0, rest |-> {}, seen |-> {}, dead |-> {}, detached |-> FALSE]

\* ConnectionManager.is_user_online
is_user_online(user_id) == active_connections[user_id].present

\* ConnectionManager.get_active_users_count
get_active_users_count == Cardinality({u \in DOMAIN active_connections : active_connections[u].present})

\* ConnectionManager.connect, called by the endpoint of a new WebSocket after
\* the token's user was found active. The WebSocket is a new object, so no
\* send in progress refers to it.
connect(websocket, user_id) ==
    /\ endpoints[websocket] = NoUser
    /\ websocket \notin sending.rest \cup sending.seen \cup sending.dead
    /\ active_connections' = [active_connections EXCEPT ![user_id] = [present |-> TRUE, connections |-> @.connections \cup {websocket}]]
    /\ endpoints' = [endpoints EXCEPT ![websocket] = user_id]
    /\ UNCHANGED <<sending, dataVars, reviewVars, organizations, notified, notifier, resp>>

\* ConnectionManager.disconnect, called by the endpoint when its receive loop
\* ends. The key is deleted when the set became empty; a loop that iterates
\* the deleted set keeps the detached object.
disconnect(websocket, user_id) ==
    /\ endpoints[websocket] = user_id
    /\ endpoints' = [endpoints EXCEPT ![websocket] = NoUser]
    /\ IF ~active_connections[user_id].present
       THEN UNCHANGED <<active_connections, sending>>
       ELSE LET left == active_connections[user_id].connections \ {websocket}
            IN  /\ active_connections' = [active_connections EXCEPT ![user_id] = IF left = {} THEN NoEntry ELSE [present |-> TRUE, connections |-> left]]
                /\ sending' = IF left = {} /\ sending.user = user_id THEN [sending EXCEPT !.detached = TRUE] ELSE sending
    /\ UNCHANGED <<dataVars, reviewVars, organizations, notified, notifier, resp>>

\* ConnectionManager.send_personal_notification up to the first send: the call
\* returns at once for a user without key, else the loop over the user's set
\* begins.
send_personal_notification(user_id) ==
    /\ sending = NoSend
    /\ IF ~active_connections[user_id].present
       THEN UNCHANGED sending
       ELSE sending' = [user |-> user_id, used |-> Cardinality(active_connections[user_id].connections), rest |-> active_connections[user_id].connections, seen |-> {}, dead |-> {}, detached |-> FALSE]
    /\ UNCHANGED <<active_connections, endpoints, dataVars, reviewVars, organizations, notified, notifier, resp>>

\* One turn of the loop of send_personal_notification, from one await to the
\* next. The set iterator raises RuntimeError when the size of the set differs
\* from the size at the start; the error leaves the call before the clean-up.
\* Otherwise the iterator yields a connection not yet visited (one of the
\* original set that is still there, or one added meanwhile), whose send_text
\* succeeds or raises, or the loop ends and the dead connections are discarded
\* from the user's set, which stays in the dict even when it becomes empty.
send_text ==
    /\ sending # NoSend
    /\ LET user_id == sending.user
           connections == active_connections[user_id].connections
       IN  IF sending.detached \/ Cardinality(connections) # sending.used
           THEN /\ sending' = NoSend
                /\ UNCHANGED active_connections
           ELSE \/ \E connection \in connections \ sending.seen : \E sent \in BOOLEAN :
                      /\ sending' = [sending EXCEPT !.rest = @ \ {connection}, !.seen = @ \cup {connection}, !.dead = IF sent THEN @ ELSE @ \cup {connection}]
                      /\ UNCHANGED active_connections
                \/ /\ sending.rest \cap connections = {}
                   /\ active_connections' = [active_connections EXCEPT ![user_id].connections = @ \ sending.dead]
                   /\ sending' = NoSend
    /\ UNCHANGED <<endpoints, dataVars, reviewVars, organizations, notified, notifier, resp>>

\* ------------------------------------------------------ the initiative workflow
Init ==
    /\ now = 0
    /\ initiatives = <<>>
    /\ extensions = <<>>
    /\ goals = <<>>
    /\ freeze_logs = <<>>
    /\ progress_reports = <<>>
    /\ review_assignments = ReviewAssignments
    /\ review_responses = {}
    /\ review_scores = {}
    /\ organizations = Organization
    /\ active_connections = [u \in WsUsers |-> NoEntry]
    /\ endpoints = [ws \in WebSockets |-> NoUser]
    /\ sending = NoSend
    /\ notified = {}
    /\ notifier = "ok"
    /\ resp = Response("", 0, "")

\* Every request user u can send to the initiative endpoints.
RequestBy(u) ==
    \/ \E c \in CreateChoices, d \in Dates \cup {0}, ok \in BOOLEAN :
            c[1] = u /\ create_initiative(u, c[2], c[3], c[4], d, ok)
    \/ \E i \in InitiativeIds, a \in ApprovalChoices : approve_initiative(u, i, a[1], a[2])
    \/ \E i \in InitiativeIds : accept_initiative(u, i)
    \/ \E i \in InitiativeIds : start_initiative(u, i)
    \/ \E i \in InitiativeIds : complete_initiative(u, i)
    \/ \E i \in InitiativeIds, d \in Dates : update_initiative(u, i, d)
    \/ \E i \in InitiativeIds, s \in SchemaInitiativeStatus :
            update_initiative_status(u, i, s)
    \/ \E i \in InitiativeIds, ok \in BOOLEAN : submit_initiative(u, i, ok)
    \/ \E i \in InitiativeIds, sc \in ScoreChoices, ap \in BOOLEAN :
            review_initiative(u, i, sc, ap)
    \/ \E i \in InitiativeIds, d \in ExtensionDates : request_extension(u, i, d)
    \/ \E e \in ExtensionIds, s \in ExtensionStatus : review_extension(u, e, s)

NextInitiative ==
    \/ Tick
    \/ \E u \in Actors : RequestBy(u)
    \/ update_overdue_initiatives

SpecInitiative == Init /\ [][NextInitiative]_vars

\* ------------------------------------------------------------ the goal workflow
\* The requests of user u that edit goal g, approve or reject it, or respond
\* to its assignment.
GoalEditBy(u, g) ==
    \/ \E t \in TitleChoices : update_goal(u, g, t)
    \/ \E pc \in PercentChoices : update_goal_progress(u, g, pc, "report")
    \/ \E pc \in PercentChoices : add_progress_report(u, g, pc, "report")
    \/ \E s \in GoalStatus : update_goal_status(u, g, s)
    \/ request_goal_change(u, g)
    \/ delete_goal(u, g)
    \/ \E a \in ApprovalChoices : approve_goal(u, g, a[1], a[2])
    \/ \E ac \in BOOLEAN : respond_to_assigned_goal(u, g, ac)

NextGoal ==
    \/ \E c \in GoalCreateChoices : create_goal(c[1], c[2], c[3], c[4], c[5], c[6], c[7])
    \/ \E c \in SuperviseeGoalChoices :
            create_goal_for_supervisee(c[1], c[2], c[3], c[4], c[5], c[6], c[7])
    \/ \E u \in Actors, g \in GoalIds : GoalEditBy(u, g)
    \/ \E u \in Actors, g \in GoalIds : freeze_goal(u, g)
    \/ \E u \in Actors, g \in GoalIds : unfreeze_goal(u, g)

SpecGoal == Init /\ [][NextGoal]_vars

\* ---------------------------------------------------------- the freeze workflow
\* Goal creation, the freeze and unfreeze of one goal and of a quarter, and
\* deletion.
NextFreeze ==
    \/ \E c \in GoalCreateChoices : create_goal(c[1], c[2], c[3], c[4], c[5], c[6], c[7])
    \/ \E c \in SuperviseeGoalChoices :
            create_goal_for_supervisee(c[1], c[2], c[3], c[4], c[5], c[6], c[7])
    \/ \E u \in Actors, g \in GoalIds : freeze_goal(u, g)
    \/ \E u \in Actors, g \in GoalIds : unfreeze_goal(u, g)
    \/ \E u \in Actors, g \in GoalIds : delete_goal(u, g)
    \/ \E u \in Actors, q \in QuarterChoices, y \in YearChoices :
            freeze_goals_for_quarter(u, q, y)
    \/ \E u \in Actors, q \in QuarterChoices, y \in YearChoices, e \in EmergencyChoices :
            unfreeze_goals_for_quarter(u, q, y, e[1], e[2])

SpecFreeze == Init /\ [][NextFreeze]_vars

\* -------------------------------------------------------- the approval workflow
\* Goal creation with every kind of body, approval, change requests and the
\* response to an assigned goal.
NextApproval ==
    \/ \E c \in GoalCreateChoices \cup IndividualGoalChoices :
            create_goal(c[1], c[2], c[3], c[4], c[5], c[6], c[7])
    \/ \E c \in SuperviseeGoalChoices \cup SuperviseeParentChoices :
            create_goal_for_supervisee(c[1], c[2], c[3], c[4], c[5], c[6], c[7])
    \/ \E u \in Actors, g \in GoalIds, a \in ApprovalChoices :
            approve_goal(u, g, a[1], a[2])
    \/ \E u \in Actors, g \in GoalIds : request_goal_change(u, g)
    \/ \E u \in Actors, g \in GoalIds, ac \in BOOLEAN : respond_to_assigned_goal(u, g, ac)
    \/ \E u \in Actors, g \in GoalIds : delete_goal(u, g)

SpecApproval == Init /\ [][NextApproval]_vars

\* ---------------------------------------------------- failing notifications
\* The notification path starts or stops failing.
NotifierChanges ==
    /\ \E st \in NotifierStates : st # notifier /\ notifier' = st
    /\ UNCHANGED <<dataVars, reviewVars, organizations, wsVars, notified, resp>>

\* The requests that create notifications: creation, approval, submission and
\* review of initiatives, extension requests, and assignment, approval and
\* change requests of goals.
NextNotify ==
    \/ NotifierChanges
    \/ \E c \in CreateChoices : create_initiative(c[1], c[2], c[3], c[4], MaxTime, TRUE)
    \/ \E u \in Actors, i \in InitiativeIds, a \in ApprovalChoices :
            approve_initiative(u, i, a[1], a[2])
    \/ \E u \in Actors, i \in InitiativeIds : accept_initiative(u, i)
    \/ \E u \in Actors, i \in InitiativeIds : start_initiative(u, i)
    \/ \E u \in Actors, i \in InitiativeIds : submit_initiative(u, i, TRUE)
    \/ \E u \in Actors, i \in InitiativeIds, ap \in BOOLEAN : review_initiative(u, i, 7, ap)
    \/ \E u \in Actors, i \in InitiativeIds : request_extension(u, i, MaxTime)
    \/ \E c \in SuperviseeGoalChoices :
            create_goal_for_supervisee(c[1], c[2], c[3], c[4], c[5], c[6], c[7])
    \/ \E u \in Actors, g \in GoalIds : request_goal_change(u, g)
    \/ \E u \in Actors, g \in GoalIds, a \in ApprovalChoices :
            approve_goal(u, g, a[1], a[2])

SpecNotify == Init /\ [][NextNotify]_vars

\* -------------------------------------------------------- the progress workflow
\* Goal creation, progress updates with every kind of body, freeze, unfreeze
\* and deletion.
NextProgress ==
    \/ \E c \in GoalCreateChoices : create_goal(c[1], c[2], c[3], c[4], c[5], c[6], c[7])
    \/ \E c \in SuperviseeGoalChoices :
            create_goal_for_supervisee(c[1], c[2], c[3], c[4], c[5], c[6], c[7])
    \/ \E u \in Actors, g \in GoalIds, b \in ProgressChoices :
            update_goal_progress(u, g, b[1], b[2])
    \/ \E u \in Actors, g \in GoalIds, b \in ProgressChoices :
            add_progress_report(u, g, b[1], b[2])
    \/ \E u \in Actors, g \in GoalIds : freeze_goal(u, g)
    \/ \E u \in Actors, g \in GoalIds : unfreeze_goal(u, g)
    \/ \E u \in Actors, g \in GoalIds : delete_goal(u, g)

SpecProgress == Init /\ [][NextProgress]_vars

\* The review endpoints: reviewers save and submit their assignments, an
\* administrator recalculates the scores of a cycle.
NextReview ==
    \/ \E u \in {"emp", "sup", "out"}, a \in 1..(Len(ReviewAssignments) + 1), rl \in ResponseChoices, is_draft \in BOOLEAN : submit_review_assignment(u, a, rl, is_draft)
    \/ \E u \in {"hod", "emp"}, c \in ReviewCycles \cup {"c0"} : calculate_cycle_scores(u, c)

SpecReview == Init /\ [][NextReview]_vars

\* The organisation endpoints.
NextOrganization ==
    \/ \E u \in {"hod", "sup"}, n \in OrgNames, l \in OrganizationLevel, p \in DOMAIN Organization \cup NewOrgIds \cup {Omitted, NoOrg} : create_organization(u, n, l, p)
    \/ \E u \in {"hod", "sup"}, id \in DOMAIN Organization \cup NewOrgIds, n \in OrgNames : update_organization(u, id, n)
    \/ \E u \in {"hod", "sup"}, id \in DOMAIN Organization \cup NewOrgIds : delete_organization(u, id)

SpecOrganization == Init /\ [][NextOrganization]_vars

\* The operations on the connection registry.
NextWebsocket ==
    \/ \E websocket \in WebSockets : \E user_id \in WsUsers : connect(websocket, user_id)
    \/ \E websocket \in WebSockets : \E user_id \in WsUsers : disconnect(websocket, user_id)
    \/ \E user_id \in WsUsers : send_personal_notification(user_id)
    \/ send_text

SpecWebsocket == Init /\ [][NextWebsocket]_vars

\* ------------------------------------------- properties of the initiative workflow
\* The user that may submit initiative i: the team head of a GROUP initiative,
\* an assignee of an INDIVIDUAL one.
may_submit(u, i) ==
    IF initiatives[i].type = "GROUP" THEN initiatives[i].team_head_id = u
    ELSE is_assigned(i, u)

\* The edges of the documented state machine.
DocumentedEdges ==
    {<<"PENDING_APPROVAL", "ASSIGNED">>, <<"ASSIGNED", "PENDING">>,
     <<"PENDING", "ONGOING">>, <<"ONGOING", "UNDER_REVIEW">>,
     <<"UNDER_REVIEW", "APPROVED">>, <<"UNDER_REVIEW", "ONGOING">>,
     <<"ASSIGNED", "OVERDUE">>, <<"PENDING", "OVERDUE">>,
     <<"ONGOING", "OVERDUE">>, <<"UNDER_REVIEW", "OVERDUE">>,
     <<"OVERDUE", "ONGOING">>, <<"OVERDUE", "UNDER_REVIEW">>,
     <<"PENDING_APPROVAL", "REJECTED">>}

\* C3: every change of an initiative's status follows an edge of the documented
\* state machine (PENDING_APPROVAL -> ASSIGNED -> PENDING -> ONGOING ->
\* UNDER_REVIEW -> APPROVED or back to ONGOING, an active state -> OVERDUE,
\* OVERDUE -> ONGOING or UNDER_REVIEW, PENDING_APPROVAL -> REJECTED).
C3_StatusFollowsStateMachine ==
    [][\A i \in DOMAIN initiatives :
            initiatives'[i].status # initiatives[i].status
            => <<initiatives[i].status, initiatives'[i].status>> \in DocumentedEdges]_vars

\* C3 witness: an approval has moved an initiative from PENDING_APPROVAL to
\* PENDING, past ASSIGNED.
C3_Witness ==
    /\ resp = Response("approve_initiative", 200, "")
    /\ \E i \in DOMAIN initiatives : initiatives[i].status = "PENDING"

\* C4: APPROVED is terminal: an initiative whose status is APPROVED keeps that
\* status in every step.
C4_ApprovedIsTerminal ==
    [][\A i \in DOMAIN initiatives :
            initiatives[i].status = "APPROVED" => initiatives'[i].status = "APPROVED"]_vars

\* C5: at every moment each initiative has at most one PENDING extension, and an
\* extension request made while one is PENDING is refused with a validation
\* error and adds no row.
C5_AtMostOnePendingExtension ==
    [][/\ \A i \in InitiativeIds : Cardinality(pending_extensions(i))' <= 1
       /\ resp'.op = "request_extension"
            => \A u \in Actors, i \in InitiativeIds, d \in ExtensionDates :
                (pending_extensions(i) # {} /\ request_extension(u, i, d))
                => (resp'.code \in {400, 422} /\ extensions' = extensions)]_vars

\* C5 witness: a second extension request for an initiative was refused while
\* its first request was still PENDING.
C5_Witness ==
    /\ resp = Response("request_extension", 400, "")
    /\ \E i \in DOMAIN initiatives :
            /\ pending_extensions(i) # {}
            /\ is_assigned(i, "emp")

\* C6: when the creator reviews a PENDING extension with status APPROVED, the
\* extension becomes APPROVED, the initiative's due_date becomes the
\* extension's new_due_date and an OVERDUE initiative becomes ONGOING.
C6_ExtensionApprovalApplies ==
    [][\A u \in Actors, e \in ExtensionIds :
            (/\ e <= Len(extensions)
             /\ extensions[e].status = "PENDING"
             /\ initiatives[extensions[e].initiative_id].created_by = u
             /\ review_extension(u, e, "APPROVED"))
            => LET i == extensions[e].initiative_id IN
               /\ extensions'[e].status = "APPROVED"
               /\ initiatives'[i].due_date = extensions[e].new_due_date
               /\ initiatives[i].status = "OVERDUE" => initiatives'[i].status = "ONGOING"]_vars

\* C7: for a GROUP initiative a submission by a user other than the team head is
\* refused with a validation error, and no request of a user other than the
\* team head moves the initiative to UNDER_REVIEW.
C7_OnlyTeamHeadSubmitsGroup ==
    [][\A u \in Actors, i \in DOMAIN initiatives :
            (initiatives[i].type = "GROUP" /\ initiatives[i].team_head_id # u)
            => /\ \A ok \in BOOLEAN :
                    submit_initiative(u, i, ok)
                    => (resp'.code = 400 /\ initiatives' = initiatives)
               /\ RequestBy(u)
                    => ~(/\ initiatives[i].status # "UNDER_REVIEW"
                         /\ initiatives'[i].status = "UNDER_REVIEW")]_vars

\* C8: an initiative created with the creator as its only assignee starts in
\* PENDING_APPROVAL; one created by the supervisor of an assignee, the creator
\* not being among the assignees, starts in ASSIGNED.
C8_InitialStatus ==
    [][Len(initiatives') > Len(initiatives)
        => LET new == initiatives'[Len(initiatives')] IN
           /\ new.assignees = {new.created_by} => new.status = "PENDING_APPROVAL"
           /\ (/\ new.created_by \notin new.assignees
               /\ \E a \in new.assignees : User[a].supervisor_id = new.created_by)
              => new.status = "ASSIGNED"]_vars

\* C8 witness: a supervisor has created an initiative for a direct report.
C8_Witness ==
    /\ resp = Response("create_initiative", 200, "")
    /\ \E i \in DOMAIN initiatives :
            /\ initiatives[i].created_by = "sup"
            /\ initiatives[i].assignees = {"emp"}
            /\ initiatives[i].status = "ASSIGNED"

\* C9 (as stated): an authorised submitter's submission of an OVERDUE initiative
\* is refused when a PENDING extension exists for it, and otherwise succeeds
\* and moves the initiative to UNDER_REVIEW.
C9_SubmitOverdueAsStated ==
    [][\A u \in Actors, i \in DOMAIN initiatives, ok \in BOOLEAN :
            (/\ initiatives[i].status = "OVERDUE"
             /\ may_submit(u, i)
             /\ submit_initiative(u, i, ok))
            => IF pending_extensions(i) # {}
               THEN resp'.code = 400 /\ initiatives' = initiatives
               ELSE resp'.code = 200 /\ initiatives'[i].status = "UNDER_REVIEW"]_vars

\* C9: an authorised submitter's submission of an OVERDUE initiative is refused
\* when a PENDING extension exists for it; otherwise it succeeds and moves the
\* initiative to UNDER_REVIEW when every document id of the submission names a
\* document of that initiative, and is refused when one does not.
C9_SubmitOverdue ==
    [][resp'.op = "submit_initiative"
        => \A u \in Actors, i \in DOMAIN initiatives, ok \in BOOLEAN :
            (/\ initiatives[i].status = "OVERDUE"
             /\ may_submit(u, i)
             /\ submit_initiative(u, i, ok))
            => IF pending_extensions(i) # {} \/ ~ok
               THEN resp'.code = 400 /\ initiatives' = initiatives
               ELSE resp'.code = 200 /\ initiatives'[i].status = "UNDER_REVIEW"]_vars

\* C9 witness: an OVERDUE initiative was submitted (it is UNDER_REVIEW, past its
\* due date, with one submission) after its extension request was reviewed.
C9_Witness ==
    /\ resp = Response("submit_initiative", 200, "")
    /\ \E i \in DOMAIN initiatives :
            /\ initiatives[i].status = "UNDER_REVIEW"
            /\ initiatives[i].due_date < now
            /\ initiatives[i].submissions = 1
            /\ pending_extensions(i) = {}
            /\ \E e \in DOMAIN extensions : extensions[e].initiative_id = i

\* C10: when the overdue job runs, every initiative that is ASSIGNED, PENDING,
\* ONGOING or UNDER_REVIEW and whose due_date has passed is moved to OVERDUE.
C10_OverdueJobMovesActive ==
    [][update_overdue_initiatives
        => \A i \in DOMAIN initiatives :
            (/\ initiatives[i].status \in {"ASSIGNED", "PENDING", "ONGOING", "UNDER_REVIEW"}
             /\ initiatives[i].due_date < now)
            => initiatives'[i].status = "OVERDUE"]_vars

\* C10 witness: the overdue job has run and left an ASSIGNED initiative whose
\* due_date has passed in ASSIGNED.
C10_Witness ==
    /\ resp = Response("update_overdue_initiatives", 0, "")
    /\ \E i \in DOMAIN initiatives :
            initiatives[i].status = "ASSIGNED" /\ initiatives[i].due_date < now

\* ------------------------------------------------- properties of the goal workflow
\* In table G the achievement check has been carried upward from goal g: when
\* every child of g's parent is ACHIEVED the parent is ACHIEVED with
\* progress_percentage 100, and so on from the parent.
RECURSIVE Cascaded(_, _)
Cascaded(G, g) ==
    \A p \in G[g].parent_goal_id :
        (\A c \in 1..Len(G) : (~G[c].deleted /\ G[c].parent_goal_id = {p})
                                => G[c].status = "ACHIEVED")
        => /\ G[p].status = "ACHIEVED"
           /\ G[p].progress_percentage = 100
           /\ Cascaded(G, p)

\* C1: when a user holding goal_status_change marks a goal ACHIEVED, the goal is
\* ACHIEVED afterwards and the achievement check has run on its parent: every
\* ancestor whose children are all ACHIEVED is ACHIEVED with
\* progress_percentage 100, the check continuing upward.
C1_AchievementCascades ==
    [][\A u \in Actors, g \in GoalIds :
            (/\ user_has_permission(u, "goal_status_change")
             /\ goal_found(g)
             /\ update_goal_status(u, g, "ACHIEVED"))
            => /\ goals'[g].status = "ACHIEVED"
               /\ Cascaded(goals', g)]_vars

\* C1 witness: the request that marks a child goal ACHIEVED was answered with a
\* server error, and the child is not ACHIEVED.
C1_Witness ==
    /\ resp = Response("update_goal_status", 500, "")
    /\ \E g \in 1..Len(goals) :
            /\ ~goals[g].deleted
            /\ ~goals[g].frozen
            /\ goals[g].parent_goal_id # {}
            /\ goals[g].status = "ACTIVE"

\* C2: while a goal is frozen, every request that edits it (field update,
\* progress update, progress report, status change, change request, delete),
\* approves or rejects it or responds to its assignment is refused with an
\* error and leaves the goal unchanged.
C2_FrozenGoalsRejectEdits ==
    [][\A u \in Actors, g \in GoalIds :
            (goal_found(g) /\ goals[g].frozen /\ GoalEditBy(u, g))
            => (resp'.code >= 400 /\ goals'[g] = goals[g])]_vars

\* C2 witness: a frozen goal whose status is no longer the one it was frozen
\* with, after a status update answered 200.
C2_Witness ==
    /\ resp = Response("update_goal_status", 200, "")
    /\ \E g \in 1..Len(goals) :
            /\ ~goals[g].deleted
            /\ goals[g].frozen
            /\ goals[g].status = "REJECTED"
            /\ goals[g].assigned_to = NoUser

\* ------------------------------------------- properties of the freeze workflow
\* C11: every freeze-quarter or unfreeze-quarter call of a user holding
\* goal_freeze (with a body that passes validation) inserts exactly one
\* goal_freeze_logs row, for the quarter and
\* year of the call, whose affected_goals_count is the number of goals whose
\* frozen flag the call changed (0 when no goal matches).
C11_OneFreezeLogPerCall ==
    [][\A u \in Actors, q \in QuarterChoices, y \in YearChoices :
            (/\ user_has_permission(u, "goal_freeze")
             /\ \/ freeze_goals_for_quarter(u, q, y)
                \/ \E e \in EmergencyChoices :
                        /\ validate_emergency_reason(e[1], e[2]) = ""
                        /\ unfreeze_goals_for_quarter(u, q, y, e[1], e[2]))
            => /\ Len(freeze_logs') = Len(freeze_logs) + 1
               /\ SubSeq(freeze_logs', 1, Len(freeze_logs)) = freeze_logs
               /\ LET row == freeze_logs'[Len(freeze_logs')] IN
                  /\ row.quarter = q /\ row.year = y
                  /\ row.affected_goals_count =
                        Cardinality({g \in 1..Len(goals) :
                                        goals'[g].frozen # goals[g].frozen})]_vars

\* C11 witness: a freeze of a quarter that froze one goal, followed by a second
\* freeze of the same quarter that matched none and logged 0.
C11_Witness ==
    /\ resp = Response("freeze_goals_for_quarter", 200, "")
    /\ Len(freeze_logs) = 2
    /\ freeze_logs[1].action = "freeze" /\ freeze_logs[1].affected_goals_count = 1
    /\ freeze_logs[2].action = "freeze" /\ freeze_logs[2].affected_goals_count = 0
    /\ freeze_logs[2].quarter = freeze_logs[1].quarter

\* ----------------------------------------- properties of the progress workflow
\* The progress request of user u for goal g with body (new_percentage, report),
\* sent to either progress endpoint.
progress_request(u, g, new_percentage, report) ==
    \/ update_goal_progress(u, g, new_percentage, report)
    \/ add_progress_report(u, g, new_percentage, report)

\* C12: a progress update for a goal that has children is refused, and one
\* whose report is empty or whose percentage is outside 0..100 is refused by
\* the validation of the body (422); a refused update changes neither the
\* goal's progress_percentage nor the progress-report rows.  An update that is
\* stored is for a leaf goal, with a non-empty report and a percentage in
\* 0..100, and adds exactly one report row.
C12_ProgressOnlyForValidLeaf ==
    [][resp'.op \in {"update_goal_progress", "add_progress_report"}
        => \A u \in Actors, g \in GoalIds, b \in ProgressChoices :
            progress_request(u, g, b[1], b[2])
            => LET bad_body == b[2] = "" \/ b[1] < 0 \/ b[1] > 100
                   parent == goal_found(g) /\ child_goals(g) # {}
               IN  /\ bad_body => resp'.code = 422
                   /\ (bad_body \/ parent)
                        => /\ resp'.code >= 400
                           /\ goals' = goals
                           /\ progress_reports' = progress_reports
                   /\ resp'.code = 200
                        => /\ ~bad_body /\ goal_found(g) /\ child_goals(g) = {}
                           /\ goals'[g].progress_percentage = b[1]
                           /\ progress_reports' =
                                Append(progress_reports,
                                       [goal_id |-> g, new_percentage |-> b[1],
                                        report |-> b[2]])
                   /\ resp'.code # 200
                        => goals' = goals /\ progress_reports' = progress_reports]_vars

\* C12 witness: a goal that has a child and whose progress was never stored,
\* after a progress request for it by a user allowed to update it was refused
\* with 400 while no goal is frozen.
C12_Witness ==
    /\ resp = Response("update_goal_progress", 400, "")
    /\ progress_reports = <<>>
    /\ \E g \in 1..Len(goals) :
            /\ ~goals[g].deleted /\ ~goals[g].frozen
            /\ child_goals(g) # {}
            /\ goals[g].progress_percentage = 0
    /\ \A g \in 1..Len(goals) : ~goals[g].frozen

\* ----------------------------------------- properties of the approval workflow
\* Goal g is an INDIVIDUAL goal as its creation by a supervisee left it: its
\* creator owns it and has a supervisor, and it is ACTIVE and not frozen.
created_by_supervisee(g) ==
    /\ goal_found(g)
    /\ goals[g].scope = "INDIVIDUAL"
    /\ goals[g].created_by = goals[g].owner_id
    /\ User[goals[g].owner_id].supervisor_id # NoUser
    /\ goals[g].status = "ACTIVE"
    /\ ~goals[g].frozen

\* C13: an approve request for an INDIVIDUAL goal that a supervisee created
\* (status ACTIVE), sent by a user who is not the owner's supervisor, is
\* answered 403 and leaves the goal unchanged.
C13_ApproveByNonSupervisorIs403 ==
    [][resp'.op = "approve_goal"
        => \A u \in Actors, g \in GoalIds, a \in ApprovalChoices :
            (/\ created_by_supervisee(g)
             /\ User[goals[g].owner_id].supervisor_id # u
             /\ approve_goal(u, g, a[1], a[2]))
            => (resp'.code = 403 /\ goals' = goals)]_vars

\* C13 witness: an approve request for such a goal was answered 400.
C13_Witness ==
    /\ resp = Response("approve_goal", 400, "")
    /\ \E g \in GoalIds : created_by_supervisee(g)
    /\ \A g \in 1..Len(goals) : goals[g].scope = "INDIVIDUAL" /\ goals[g].status = "ACTIVE"

\* C14: when a user who has a supervisor S creates an INDIVIDUAL goal with
\* quarter and year given, the goal is stored with status ACTIVE and a
\* notification row addressed to S is created.
C14_CreationNotifiesSupervisor ==
    [][resp'.op = "create_goal"
        => \A c \in GoalCreateChoices \cup IndividualGoalChoices :
            (/\ c[2] = "INDIVIDUAL" /\ c[4] # "none" /\ c[5] # 0
             /\ User[c[1]].supervisor_id # NoUser
             /\ create_goal(c[1], c[2], c[3], c[4], c[5], c[6], c[7])
             /\ resp'.code = 200)
            => /\ Len(goals') = Len(goals) + 1
               /\ goals'[Len(goals')].status = "ACTIVE"
               /\ \E n \in notified' : n.user_id = User[c[1]].supervisor_id]_vars

\* C14 witness: an INDIVIDUAL goal of a supervisee was stored as ACTIVE by the
\* creation request just answered, and no notification row was created.
C14_Witness ==
    /\ resp = Response("create_goal", 200, "")
    /\ notified = {}
    /\ Len(goals) > 0
    /\ LET g == goals[Len(goals)] IN
        /\ g.scope = "INDIVIDUAL" /\ g.status = "ACTIVE" /\ g.quarter = "Q1"
        /\ User[g.created_by].supervisor_id = "sup"

\* C15: the approve operation moves a goal from PENDING_APPROVAL to REJECTED
\* only when the request carries a non-empty rejection reason; a rejection
\* whose reason is empty or left out is refused and leaves the goal in
\* PENDING_APPROVAL.
C15_RejectionNeedsReason ==
    [][resp'.op = "approve_goal"
        => \A u \in Actors, g \in GoalIds, a \in ApprovalChoices :
            (/\ goal_found(g)
             /\ goals[g].status = "PENDING_APPROVAL"
             /\ ~a[1]
             /\ a[2] \in {"", Omitted}
             /\ approve_goal(u, g, a[1], a[2]))
            => (resp'.code >= 400 /\ goals'[g].status = "PENDING_APPROVAL")]_vars

\* C19: every stored goal with scope INDIVIDUAL has its quarter and its year
\* set, whichever endpoint created it and whichever type it has.
C19_IndividualHasQuarterAndYear ==
    \A g \in 1..Len(goals) :
        (~goals[g].deleted /\ goals[g].scope = "INDIVIDUAL")
        => (goals[g].quarter # "none" /\ goals[g].year # 0)

\* C19 witness: the creation request just answered 200 stored an INDIVIDUAL
\* goal of type YEARLY.
C19_Witness ==
    /\ resp = Response("create_goal", 200, "")
    /\ Len(goals) > 0
    /\ goals[Len(goals)].scope = "INDIVIDUAL"
    /\ goals[Len(goals)].type = "YEARLY"

\* The scopes the parent of a goal of scope `scope` may have.
parent_scopes(scope) ==
    IF scope = "INDIVIDUAL" THEN {"DEPARTMENTAL", "COMPANY_WIDE"}
    ELSE IF scope = "DEPARTMENTAL" THEN {"COMPANY_WIDE"}
    ELSE GoalScope

\* C20: a DEPARTMENTAL goal's parent, if any, is COMPANY_WIDE and an
\* INDIVIDUAL goal's parent, if any, is DEPARTMENTAL or COMPANY_WIDE: after
\* every step each stored goal with a parent satisfies this, so a creation
\* request naming any other parent has stored nothing.
C20_ParentScopeIsBroader ==
    [][\A g \in 1..Len(goals') :
            ~goals'[g].deleted
            => \A p \in goals'[g].parent_goal_id :
                    goals'[p].scope \in parent_scopes(goals'[g].scope)]_vars

\* C20 witness: the request to create a goal for a supervisee just answered
\* 200 stored an INDIVIDUAL goal whose parent is an INDIVIDUAL goal.
C20_Witness ==
    /\ resp = Response("create_goal_for_supervisee", 200, "")
    /\ Len(goals) > 0
    /\ goals[Len(goals)].scope = "INDIVIDUAL"
    /\ \E p \in goals[Len(goals)].parent_goal_id :
            ~goals[p].deleted /\ goals[p].scope = "INDIVIDUAL"

\* ------------------------------------------- properties of failing notifications
\* C18: while creating a notification fails, no request is answered with a
\* server error, and a request answered with success has committed its
\* change: a created initiative, extension or goal is stored, and an approved,
\* rejected or reviewed initiative or goal has left the status it was in.
C18_NotificationFailureIsHarmless ==
    [][(notifier # "ok" /\ resp' # resp)
        => /\ resp'.code # 500
           /\ (resp'.code = 200 /\ resp'.op = "create_initiative")
                => Len(initiatives') = Len(initiatives) + 1
           /\ (resp'.code = 200 /\ resp'.op = "request_extension")
                => Len(extensions') = Len(extensions) + 1
           /\ (resp'.code = 200 /\ resp'.op = "create_goal_for_supervisee")
                => Len(goals') = Len(goals) + 1
           /\ (resp'.code = 200 /\ resp'.op \in {"approve_initiative", "review_initiative"})
                => \E i \in 1..Len(initiatives) :
                        initiatives'[i].status # initiatives[i].status
           /\ (resp'.code = 200 /\ resp'.op = "approve_goal")
                => \E g \in 1..Len(goals) : goals'[g].status # goals[g].status]_vars

\* C18 witness: while the commit of a notification fails, the rejection of an
\* initiative was answered with success and the initiative is still in
\* PENDING_APPROVAL.
C18_Witness ==
    /\ notifier = "commit_fails"
    /\ resp = Response("approve_initiative", 200, "")
    /\ \E i \in 1..Len(initiatives) : initiatives[i].status = "PENDING_APPROVAL"


\* ------------------------------------------------------------------ C16
\* The ratings a trait received in the completed assignments of one review
\* type of a reviewee, on the questions of the trait that apply to the type.
trait_ratings(asg, rsp, cycle_id, user_id, trait_id, review_type) ==
    {r \in rsp : /\ r.assignment_id \in DOMAIN asg
                 /\ asg[r.assignment_id].cycle_id = cycle_id
                 /\ asg[r.assignment_id].reviewee_id = user_id
                 /\ asg[r.assignment_id].review_type = review_type
                 /\ asg[r.assignment_id].status = "completed"
                 /\ \E q \in ReviewQuestions : q.id = r.question_id /\ q.trait_id = trait_id /\ q.is_active /\ review_type \in q.applies_to}

RECURSIVE sum_ratings(_)
sum_ratings(rows) == IF rows = {} THEN 0 ELSE LET r == CHOOSE x \in rows : TRUE IN r.rating + sum_ratings(rows \ {r})

only_supervisor_responses(asg, rsp, cycle_id, user_id, trait_id) ==
    /\ trait_ratings(asg, rsp, cycle_id, user_id, trait_id, "supervisor") # {}
    /\ trait_ratings(asg, rsp, cycle_id, user_id, trait_id, "self") = {}
    /\ trait_ratings(asg, rsp, cycle_id, user_id, trait_id, "peer") = {}

\* weighted_score = sum of the supervisor ratings / their number
is_supervisor_average(score, asg, rsp, cycle_id, user_id, trait_id) ==
    LET rows == trait_ratings(asg, rsp, cycle_id, user_id, trait_id, "supervisor")
    IN  score.den > 0 /\ score.num * Cardinality(rows) = sum_ratings(rows) * score.den

\* The submission of assignment a in this step is final and completes the
\* assignments of its cycle and reviewee.
completes_pair(a) ==
    /\ resp'.op = "submit_review_assignment"
    /\ review_assignments[a].status # "completed"
    /\ review_assignments'[a].status = "completed"
    /\ scores_ready(review_assignments', review_assignments[a].cycle_id, review_assignments[a].reviewee_id)

\* C16: when the scores of a reviewee are calculated and a trait has only
\* supervisor responses (no self rating and no peer rating), the stored
\* weighted_score of the trait equals the average of the supervisor ratings.
C16_SupervisorOnlyScoreIsAverage ==
    [][\A a \in DOMAIN review_assignments, t \in active_traits("c1") :
          (/\ completes_pair(a)
           /\ only_supervisor_responses(review_assignments', review_responses', review_assignments[a].cycle_id, review_assignments[a].reviewee_id, t))
          => \E s \in review_scores' :
                /\ s.cycle_id = review_assignments[a].cycle_id
                /\ s.user_id = review_assignments[a].reviewee_id
                /\ s.trait_id = t
                /\ is_supervisor_average(s.weighted_score, review_assignments', review_responses', s.cycle_id, s.user_id, t)]_vars

\* Every assignment of emp is completed, the trait has a supervisor rating
\* and no self rating, and the submission that completed them was answered
\* with an internal error.
C16_Witness ==
    /\ resp = Response("submit_review_assignment", 500, "")
    /\ scores_ready(review_assignments, "c1", "emp")
    /\ only_supervisor_responses(review_assignments, review_responses, "c1", "emp", "t1")

\* ------------------------------------------------------------------ C17
\* C17: a final submission that completes every assignment of its cycle and
\* reviewee leaves ReviewScore rows of the reviewee behind, and a submission
\* (draft or final) after which some assignment of the pair is not completed
\* changes no ReviewScore row.
C17_ScoresExactlyWhenPairCompleted ==
    [][resp'.op = "submit_review_assignment"
        => \A a \in DOMAIN review_assignments :
              /\ completes_pair(a)
                   => \E s \in review_scores' : s.cycle_id = review_assignments[a].cycle_id /\ s.user_id = review_assignments[a].reviewee_id
              /\ (review_assignments' # review_assignments \/ review_responses' # review_responses) /\ ~(\E b \in DOMAIN review_assignments : completes_pair(b))
                   => review_scores' = review_scores]_vars

\* The final submission of the last open assignment of emp was answered with
\* an internal error and left no score row of emp, while an assignment of
\* another reviewee is still open.
C17_Witness ==
    /\ resp = Response("submit_review_assignment", 500, "")
    /\ scores_ready(review_assignments, "c1", "emp")
    /\ ~scores_ready(review_assignments, "c1", "sup")
    /\ \A s \in review_scores : s.user_id # "emp"

\* ------------------------------------------------------------------ C21
\* C21: every GROUP initiative has a team head, and the team head is one of
\* its assignees: a creation without team head or with a team head outside
\* assignee_ids stores no initiative.
C21_GroupHasTeamHeadAmongAssignees ==
    \A i \in 1..Len(initiatives) :
        initiatives[i].type = "GROUP"
            => /\ initiatives[i].team_head_id # NoUser
               /\ initiatives[i].team_head_id \in initiatives[i].assignees

\* A GROUP initiative was created with one of its assignees as team head.
C21_Witness ==
    /\ resp = Response("create_initiative", 200, "")
    /\ \E i \in 1..Len(initiatives) :
            /\ initiatives[i].type = "GROUP"
            /\ initiatives[i].team_head_id \in initiatives[i].assignees

\* ------------------------------------------------------------------ C22
\* C22: at every moment an initiative has at most one InitiativeSubmission
\* row, also after a redo was requested and it is submitted again.
C22_AtMostOneSubmission ==
    \A i \in 1..Len(initiatives) : initiatives[i].submissions <= 1

\* A submitted initiative was sent back for a redo: it has its submission row
\* and is ONGOING again.
C22_Witness ==
    /\ resp = Response("review_initiative", 200, "")
    /\ \E i \in 1..Len(initiatives) : initiatives[i].status = "ONGOING" /\ initiatives[i].submissions = 1

\* ------------------------------------------------------------------ C23
\* C23: an unfreeze-quarter request flagged as emergency override is accepted
\* only with a non-empty reason: no goal_freeze_logs row has
\* is_emergency_override true with a missing or empty emergency_reason.
C23_EmergencyOverrideHasReason ==
    \A k \in 1..Len(freeze_logs) :
        freeze_logs[k].is_emergency_override => freeze_logs[k].emergency_reason \notin {NoReason, ""}

\* An emergency unfreeze with a reason was accepted and logged.
C23_Witness ==
    /\ resp = Response("unfreeze_goals_for_quarter", 200, "")
    /\ Len(freeze_logs) > 0
    /\ freeze_logs[Len(freeze_logs)].is_emergency_override
    /\ freeze_logs[Len(freeze_logs)].emergency_reason = "reason"

\* ------------------------------------------------------------------ C24
\* The parent chain of org ends (an organisation without parent, or an id
\* that is no row) within n steps.
RECURSIVE chain_ends(_, _)
chain_ends(org, n) ==
    IF org \notin DOMAIN organizations THEN TRUE
    ELSE IF organizations[org].parent_id = NoOrg THEN TRUE
    ELSE n > 0 /\ chain_ends(organizations[org].parent_id, n - 1)

\* The steps from the lowest level to the global organisation.
TreeDepth == 4

\* C24: the organisations form a tree: the global organisation has no
\* parent, every other organisation has a parent that exists and is exactly
\* one level above it, and every parent chain ends within the tree depth.
C24_OrganizationsFormLevelTree ==
    \A o \in DOMAIN organizations :
        /\ organizations[o].level = "global" => organizations[o].parent_id = NoOrg
        /\ organizations[o].level # "global"
             => /\ organizations[o].parent_id \in DOMAIN organizations
                /\ level_order[organizations[o].level] = level_order[organizations[organizations[o].parent_id].level] + 1
        /\ chain_ends(o, TreeDepth)

\* A request created a unit under a division under a department.
C24_Witness ==
    /\ resp = Response("create_organization", 200, "")
    /\ \E o \in NewOrgIds \cap DOMAIN organizations :
            /\ organizations[o].level = "unit"
            /\ organizations[o].parent_id \in NewOrgIds
            /\ organizations[organizations[o].parent_id].level = "division"

\* ------------------------------------------------------------------ C25
\* C25: a created initiative starts in ASSIGNED exactly when its creator is
\* the supervisor of every assignee and is not among the assignees; every
\* other creation starts in PENDING_APPROVAL.
C25_AssignedOnlyBySupervisorOfAll ==
    [][(resp'.op = "create_initiative" /\ Len(initiatives') > Len(initiatives))
        => LET new == initiatives'[Len(initiatives')] IN
           IF /\ new.created_by \notin new.assignees
              /\ \A a \in new.assignees : User[a].supervisor_id = new.created_by
           THEN new.status = "ASSIGNED"
           ELSE new.status = "PENDING_APPROVAL"]_vars

\* A supervisor created a group initiative for a direct report and
\* themselves: it waits for approval.
C25_Witness ==
    /\ resp = Response("create_initiative", 200, "")
    /\ \E i \in DOMAIN initiatives :
            /\ initiatives[i].created_by = "sup"
            /\ initiatives[i].assignees = {"sup", "emp"}
            /\ initiatives[i].status = "PENDING_APPROVAL"

\* ------------------------------------------------------------------ C26
\* Goal g is the goal that the last handled request, a change request of its
\* owner, returned to PENDING_APPROVAL.
change_requested(g) ==
    /\ resp = Response("request_goal_change", 200, "")
    /\ goal_found(g)
    /\ goals[g].status = "PENDING_APPROVAL"
    /\ \A h \in 1..Len(goals) : h # g => goals[h].status # "PENDING_APPROVAL"

\* C26: a goal that its owner's change request returned to PENDING_APPROVAL
\* becomes ACTIVE again only through approve_goal, which accepts only the
\* owner's supervisor or a holder of goal_approve: no other request makes it
\* ACTIVE.
C26_ActiveAgainOnlyByApproval ==
    [][\A g \in 1..Len(goals) :
          (change_requested(g) /\ ~goals'[g].deleted /\ goals'[g].status = "ACTIVE") => resp'.op = "approve_goal"]_vars

\* The owner of a goal assigned by the supervisor has requested a change.
C26_Witness ==
    \E g \in 1..Len(goals) :
        /\ change_requested(g)
        /\ goals[g].assigned_to = goals[g].owner_id
        /\ goals[g].created_by = User[goals[g].owner_id].supervisor_id

\* ------------------------------------------------------------------ C28
\* C28: every operation that changes the frozen flag of a goal, quarter-wide
\* or for a single goal, appends a goal_freeze_logs row in the same operation.
C28_FrozenChangeIsLogged ==
    [][(\E g \in 1..Len(goals) : ~goals'[g].deleted /\ goals'[g].frozen # goals[g].frozen)
        => Len(freeze_logs') = Len(freeze_logs) + 1]_vars

\* A quarter-wide unfreeze released at least one goal and logged it.
C28_Witness ==
    /\ resp = Response("unfreeze_goals_for_quarter", 200, "")
    /\ Len(freeze_logs) > 0
    /\ freeze_logs[Len(freeze_logs)].action = "unfreeze"
    /\ freeze_logs[Len(freeze_logs)].affected_goals_count > 0

\* ------------------------------------------------------------------ C29
\* The checks of approve_initiative that depend on the stored initiative and
\* on the caller: user u's approve or reject request for initiative i is
\* accepted.
can_decide(u, i) == i <= Len(initiatives) /\ initiatives[i].status = "PENDING_APPROVAL" /\ User[initiatives[i].created_by].supervisor_id = u

\* C29: every initiative in PENDING_APPROVAL can be decided: whoever created
\* it, some user exists whose approve or reject request approve_initiative
\* accepts.
C29_PendingApprovalHasApprover ==
    \A i \in 1..Len(initiatives) :
        initiatives[i].status = "PENDING_APPROVAL" => \E u \in Actors : can_decide(u, i)

\* An initiative waits for approval and its creator's supervisor can decide it.
C29_Witness ==
    \E i \in 1..Len(initiatives) :
        /\ initiatives[i].status = "PENDING_APPROVAL"
        /\ initiatives[i].created_by = "emp"
        /\ can_decide("sup", i)

\* ------------------------------------------------------------------ C30
\* C30: after any operation of the connection registry, no user id is mapped
\* to an empty connection set: a user is online, and counted among the active
\* users, exactly when the user has at least one registered connection.
C30_NoEmptyConnectionSet ==
    /\ \A u \in WsUsers : is_user_online(u) <=> active_connections[u].connections # {}
    /\ get_active_users_count = Cardinality({u \in WsUsers : active_connections[u].connections # {}})

\* Both WebSockets were connected for one user: no send is in progress and
\* the user is online with two registered connections.
C30_Witness ==
    /\ sending = NoSend
    /\ \E u \in WsUsers : is_user_online(u) /\ active_connections[u].connections = {"w1", "w2"}
====
